---- MODULE Spec2Model ----
(***************************************************************************)
(* Verification model of jlma-cfes.                                        *)
(*                                                                         *)
(*   SpecOrch      : ClaudeFlowAdapter.connect / orchestrate (retry loop)  *)
(*   SpecHooks     : ValidationHooks registry and pipeline runs            *)
(*   SpecValidator : PatternValidator validatePre / validatePost           *)
(*   SpecTruth     : TruthScoring calculateScore / verify                  *)
(*   SpecHistory   : TruthScoring with a score history near its cap        *)
(*   SpecSparc     : SPARCIntegration workflow and phase gates             *)
(*   SpecSession   : HookAutomation sessionStart / Restore / End           *)
(*   SpecCore      : EnhancementCore operations, circuit breaker, shutdown *)
(*   SpecCoreLive  : SpecCore with the shutdown timer firing when due      *)
(*   SpecCoreTimers: SpecCore with the operation timers firing when due    *)
(*   SpecBreaker   : EnhancementCore after one circuit-breaker cycle       *)
(*                                                                         *)
(* Text is modelled as a sequence of tokens; the token "MARK" is the       *)
(* literal '[QUALITY FEEDBACK - PLEASE FIX]:'.                             *)
(***************************************************************************)
EXTENDS Integers, Sequences, FiniteSets, TLC

\* ------------------------------------------------------- record fields
\* Every record of the model lists its fields in this one order, so that a
\* record value has a single representation.
FieldOrder ==
  [ active |-> 1, allowed |-> 2, assign |-> 3, attempts |-> 4,
    autoRollback |-> 5, blocked |-> 6, blockedOperations |-> 7, call |-> 8,
    checksRun |-> 9, circuitBreakerOpen |-> 10,
    circuitBreakerOpenedAt |-> 11, code |-> 12, completedPhases |-> 13,
    components |-> 14, criticalCount |-> 15, currentPhase |-> 16,
    deduction |-> 17, enablePerformanceChecks |-> 18,
    enableQualityChecks |-> 19, enableSecurityChecks |-> 20,
    enableValidation |-> 21, enabled |-> 22, ended |-> 23, epoch |-> 24,
    events |-> 25, executions |-> 26, failedCount |-> 27,
    failedOperations |-> 28, fields |-> 29, finalStatus |-> 30,
    halted |-> 31, handler |-> 32, health |-> 33, history |-> 34,
    hookErrors |-> 35, id |-> 36, input |-> 37, interventions |-> 38,
    invoked |-> 39, issue |-> 40, issued |-> 41, issues |-> 42, key |-> 43,
    keywords |-> 44, kind |-> 45, mark |-> 46, marks |-> 47,
    matches |-> 48, maxConcurrentOps |-> 49, maxRetries |-> 50,
    message |-> 51, metrics |-> 52, min |-> 53, mode |-> 54, name |-> 55,
    nextPhase |-> 56, num |-> 57, op |-> 58, out |-> 59, outcome |-> 60,
    output |-> 61, outputs |-> 62, overallScore |-> 63, passed |-> 64,
    passedCount |-> 65, pattern |-> 66, performance |-> 67,
    performanceCompliant |-> 68, phase |-> 69, phaseResults |-> 70,
    pos |-> 71, postToolUse |-> 72, postToolUseBlocked |-> 73,
    postToolUseExecutions |-> 74, postValidation |-> 75, preToolUse |-> 76,
    preToolUseBlocked |-> 77, preToolUseExecutions |-> 78,
    preValidation |-> 79, priority |-> 80, quality |-> 81,
    qualityGate |-> 82, qualityIssues |-> 83, qualityScore |-> 84,
    ready |-> 85, reason |-> 86, remediation |-> 87, resetTimers |-> 88,
    result |-> 89, rollback |-> 90, rollbackCalls |-> 91,
    rollbackCount |-> 92, score |-> 93, security |-> 94, serial |-> 95,
    sessionId |-> 96, severity |-> 97, shape |-> 98, sorted |-> 99,
    stamp |-> 100, state |-> 101, status |-> 102, strictMode |-> 103,
    success |-> 104, successfulOperations |-> 105, suggestion |-> 106,
    task |-> 107, tasksOrchestrated |-> 108, text |-> 109,
    threshold |-> 110, threw |-> 111, timers |-> 112, tokens |-> 113,
    totalCount |-> 114, totalOperations |-> 115, totalScores |-> 116,
    totalTime |-> 117, totalValidations |-> 118, type |-> 119,
    valid |-> 120, validationsRun |-> 121, validator |-> 122,
    value |-> 123, verified |-> 124, vetoed |-> 125, via |-> 126,
    violations |-> 127, violationsBlocked |-> 128, violationsFound |-> 129,
    withinBudget |-> 130 ]

\* ------------------------------------------------------------------ bounds
MaxRetriesOpt == 2
MaxCalls == 1

\* ------------------------------------------------------- shared vocabulary
\* an option left out by the caller (text-valued / number-valued)
Undefined == "undefined"
UndefinedNum == -1

\* JS `v || d` for a number-or-undefined operand: 0 and undefined are falsy.
OrDefaultAll(v, d) == IF v = UndefinedNum THEN d ELSE v
OrDefault(v, d) == IF v = UndefinedNum \/ v = 0 THEN d ELSE v

\* ClaudeFlowAdapter (src/src/adapters/ClaudeFlowAdapter.js)
VARIABLES connected, metrics, pc, options, config, currentTask, attempts,
          lastResult, success, result, execLog, preLog, postLog,
          runCommandCalls, calls

\* ValidationHooks (src/src/hooks/ValidationHooks.js)
VARIABLES strictMode, hooks, hookMetrics, lastRun, registryOps, runs

\* PatternValidator (src/src/validators/PatternValidator.js) and the
\* validatePre facade of JLMACFES (src/src/hooks/HookAutomation.js)
VARIABLES validatorOptions, validatorMetrics, enhancerReady,
          enhancerMetrics, lastValidation, validations

\* TruthScoring (src/src/adapters/ClaudeFlowAdapter.js, lines 458-766)
VARIABLES truthOptions, truthMetrics, lastVerify, verifies, scoreHistory,
          scoredLog

\* SPARCIntegration (src/src/core/PerformanceMonitor.js, lines 450-843)
VARIABLES sparcOptions, currentWorkflow, workflowHistory, inFlight,
          lastSparc, workflowsStarted

\* HookAutomation sessions (src/src/hooks/HookAutomation.js, lines 19-156)
VARIABLES session, hookHistory, suspended, lastSession, sessionCalls,
          sessionEpoch, endedInEpoch

\* EnhancementCore (src/src/core/PerformanceMonitor.js, lines 847-1178)
VARIABLES coreState, coreConfig, activeOperations, opTimers,
          operationHistory, health, resetTimers, shutdowns, lastCore,
          coreStarted, shutdownCalls

hookVars == <<strictMode, hooks, hookMetrics, lastRun, registryOps, runs>>

validatorVars == <<validatorOptions, validatorMetrics, enhancerReady,
                   enhancerMetrics, lastValidation, validations>>

truthVars == <<truthOptions, truthMetrics, lastVerify, verifies,
               scoreHistory, scoredLog>>

orchVars == <<connected, metrics, pc, options, config, currentTask, attempts,
              lastResult, success, result, execLog, preLog, postLog,
              runCommandCalls, calls>>

sparcVars == <<sparcOptions, currentWorkflow, workflowHistory, inFlight,
               lastSparc, workflowsStarted>>

sessionVars == <<session, hookHistory, suspended, lastSession, sessionCalls,
                 sessionEpoch, endedInEpoch>>

coreVars == <<coreState, coreConfig, activeOperations, opTimers,
              operationHistory, health, resetTimers, shutdowns, lastCore,
              coreStarted, shutdownCalls>>

vars == <<orchVars, hookVars, validatorVars, truthVars, sparcVars,
          sessionVars, coreVars>>
notOrch == <<hookVars, validatorVars, truthVars, sparcVars, sessionVars,
             coreVars>>
notHooks == <<orchVars, validatorVars, truthVars, sparcVars, sessionVars,
              coreVars>>
notValidator == <<orchVars, hookVars, truthVars, sparcVars, sessionVars,
                  coreVars>>
notTruth == <<orchVars, hookVars, validatorVars, sparcVars, sessionVars,
              coreVars>>
notSparc == <<orchVars, hookVars, validatorVars, truthVars, sessionVars,
              coreVars>>
notSession == <<orchVars, hookVars, validatorVars, truthVars, sparcVars,
                coreVars>>
notCore == <<orchVars, hookVars, validatorVars, truthVars, sparcVars,
             sessionVars>>

\* ===================================================================
\*  ClaudeFlowAdapter.orchestrate: the retry / feedback loop
\* ===================================================================
DefaultMaxRetries == 3

MARK == "MARK"

\* task texts handed to orchestrate (one of them already holds the marker)
Tasks == { <<"build">>, <<"build", MARK, "old">> }

\* issues a post-validation function may report: {message, suggestion?}
Issue1 == [message |-> "m1", suggestion |-> "s1"]
Issue2 == [message |-> "m2", suggestion |-> Undefined]
IssueLists == { <<>>, <<Issue1>>, <<Issue2, Issue1>> }

MaxRetriesOptions == (0..MaxRetriesOpt) \cup {UndefinedNum}

\* `- ${i.message} (${i.suggestion || 'Fix this'})`
IssueLine(i) ==
  <<"-", i.message,
    IF i.suggestion = Undefined THEN "Fix this" ELSE i.suggestion>>

RECURSIVE IssuesText(_)
\* postResult.issues.map(...).join('\n')
IssuesText(issues) ==
  IF issues = <<>> THEN <<>>
  ELSE IF Len(issues) = 1 THEN IssueLine(Head(issues))
  ELSE IssueLine(Head(issues)) \o <<"\n">> \o IssuesText(Tail(issues))

\* the feedback block of line 197
Feedback(issues) ==
  <<"\n\n", MARK, "The previous attempt had the following issues:">>
    \o IssuesText(issues)
    \o <<"Please correct these issues in the next attempt.">>

\* String.prototype.includes(marker)
Includes(text, tok) == \E i \in 1..Len(text) : text[i] = tok

\* index of the first occurrence of tok in text (0 when there is none)
FirstIndex(text, tok) ==
  IF Includes(text, tok)
  THEN CHOOSE i \in 1..Len(text) :
         text[i] = tok /\ \A j \in 1..(i-1) : text[j] # tok
  ELSE 0

\* text.split(marker)[0]
SplitHead(text, tok) ==
  IF Includes(text, tok) THEN SubSeq(text, 1, FirstIndex(text, tok) - 1)
  ELSE text

\* lines 201-205: replace the last feedback block or append one
WithFeedbackNone(task, issues) == task
WithFeedback(task, issues) ==
  IF Includes(task, MARK)
  THEN SplitHead(task, MARK) \o Feedback(issues)
  ELSE task \o Feedback(issues)

NoResult == [attempts |-> 0,
             blocked |-> FALSE,
             fields |-> {},
             finalStatus |-> "",
             kind |-> "none",
             maxRetries |-> 0,
             mode |-> "",
             success |-> FALSE]

\* lines 142-147: {success: false, blocked: true, reason, responseTime}
BlockedResult ==
  [NoResult EXCEPT !.kind = "blocked",
                   !.fields = {"success", "blocked", "reason", "responseTime"},
                   !.success = FALSE, !.blocked = TRUE]

\* lines 221-225: {success: false, error, responseTime}
ErrorResultRethrown == [NoResult EXCEPT !.kind = "rejected"]
ErrorResult ==
  [NoResult EXCEPT !.kind = "error",
                   !.fields = {"success", "error", "responseTime"},
                   !.success = FALSE]

\* the promise returned by orchestrate is rejected (an error thrown outside
\* the try block of lines 155-226)
Rejected == [NoResult EXCEPT !.kind = "rejected"]

\* result objects of one attempt
NoLast == [fields |-> {},
           mode |-> "",
           qualityIssues |-> <<>>,
           shape |-> "null",
           success |-> FALSE]
\* lines 171-177
StandaloneResult ==
  [fields |-> {"success", "task", "strategy", "mode",
                                    "message"},
   mode |-> "standalone",
   qualityIssues |-> <<>>,
   shape |-> "object",
   success |-> TRUE]
\* _parseOutput, lines 415-421: JSON.parse(output), else output.trim()
ParsedOutput(shape) ==
  [fields |-> {},
   mode |-> "",
   qualityIssues |-> <<>>,
   shape |-> shape,
   success |-> FALSE]

\* lines 232-238: {...lastResult, attempts, maxRetries, finalStatus, ...}
FinalResultNoAttempts(last, att, cfg, ok) ==
  [attempts |-> 0,
   blocked |-> FALSE,
   fields |-> last.fields \cup {"maxRetries", "finalStatus", "responseTime"},
   finalStatus |-> IF ok THEN "success" ELSE "max_retries_exceeded",
   kind |-> "final",
   maxRetries |-> cfg.maxRetries,
   mode |-> last.mode,
   success |-> last.success]
FinalResult(last, att, cfg, ok) ==
  [attempts |-> att,
   blocked |-> FALSE,
   fields |-> last.fields \cup {"attempts", "maxRetries", "finalStatus",
                                "responseTime"},
   finalStatus |-> IF ok THEN "success" ELSE "max_retries_exceeded",
   kind |-> "final",
   maxRetries |-> cfg.maxRetries,
   mode |-> last.mode,
   success |-> last.success]

NoOptions == [maxRetries |-> UndefinedNum,
              postValidation |-> FALSE,
              preValidation |-> FALSE,
              task |-> <<>>,
              via |-> "adapter"]

OrchInit ==
  /\ connected = FALSE
  /\ metrics = [blockedOperations |-> 0,
                tasksOrchestrated |-> 0,
                totalValidations |-> 0]
  /\ pc = "idle"
  /\ options = NoOptions
  /\ config = [maxRetries |-> DefaultMaxRetries,
               postValidation |-> FALSE,
               preValidation |-> FALSE]
  /\ currentTask = <<>>
  /\ attempts = 0
  /\ lastResult = NoLast
  /\ success = FALSE
  /\ result = NoResult
  /\ execLog = <<>>
  /\ preLog = <<>>
  /\ postLog = <<>>
  /\ runCommandCalls = 0
  /\ calls = 0

\* connect(): lines 47-61
connect ==
  /\ UNCHANGED notOrch
  /\ pc \in {"idle", "done"}
  /\ \E ok \in BOOLEAN : connected' = ok
  /\ UNCHANGED <<metrics, pc, options, config, currentTask, attempts,
                 lastResult, success, result, execLog, preLog, postLog,
                 runCommandCalls, calls>>

\* line 128: maxRetries: options.maxRetries || 3
ConfigMaxRetries(opt) == OrDefault(opt, DefaultMaxRetries)

\* lines 118-139: the synchronous prefix of orchestrate, up to the first await
OrchestrateCall(opts) ==
  /\ UNCHANGED notOrch
  /\ pc \in {"idle", "done"}
  /\ calls < MaxCalls
  /\ calls' = calls + 1
  /\ options' = opts
  /\ config' = [maxRetries |-> ConfigMaxRetries(opts.maxRetries),
                postValidation |-> opts.postValidation,
                preValidation |-> opts.preValidation]
  /\ currentTask' = opts.task
  /\ attempts' = 0
  /\ lastResult' = NoLast
  /\ success' = FALSE
  /\ result' = NoResult
  /\ execLog' = <<>>
  /\ postLog' = <<>>
  /\ runCommandCalls' = 0
  /\ IF opts.preValidation
     THEN /\ metrics' = [metrics EXCEPT !.tasksOrchestrated = @ + 1,
                                        !.totalValidations = @ + 1]
          /\ preLog' = <<[out |-> "pending",
                          task |-> opts.task]>>
          /\ pc' = "preValidation"
     ELSE /\ metrics' = [metrics EXCEPT !.tasksOrchestrated = @ + 1]
          /\ preLog' = <<>>
          /\ pc' = "loop"
  /\ UNCHANGED connected

\* ClaudeFlowAdapter.orchestrate(task, options)
orchestrate ==
  \E t \in Tasks, n \in MaxRetriesOptions, pre \in BOOLEAN, post \in BOOLEAN :
    OrchestrateCall([maxRetries |-> n,
                     postValidation |-> post,
                     preValidation |-> pre,
                     task |-> t,
                     via |-> "adapter"])

\* JLMACFES constructor: maxRetries: options.maxRetries || 3, ...options
EnhancerMaxRetries(opt) == OrDefaultAll(opt, DefaultMaxRetries)

\* JLMACFES.orchestrate: always passes its own validatePre / validatePost and
\* the enhancer's maxRetries
JLMACFES_orchestrate ==
  \E t \in Tasks, n \in MaxRetriesOptions :
    OrchestrateCall([maxRetries |-> EnhancerMaxRetries(n),
                     postValidation |-> TRUE,
                     preValidation |-> TRUE,
                     task |-> t,
                     via |-> "enhancer"])

\* lines 139-149: the pre-validation promise settles
PreOutcomes == {"passed", "failed", "null", "throws"}
\* line 140: preResult && !preResult.passed
PreBlocksNever(o) == FALSE
PreBlocks(o) == o = "failed"
preValidationSettles ==
  /\ UNCHANGED notOrch
  /\ pc = "preValidation"
  /\ \E o \in PreOutcomes :
       /\ preLog' = <<[preLog[1] EXCEPT !.out = o]>>
       /\ IF o = "throws"
          THEN \* line 139 is outside the try block: orchestrate rejects
               /\ result' = Rejected
               /\ pc' = "done"
               /\ UNCHANGED metrics
          ELSE IF PreBlocks(o)
          THEN /\ metrics' = [metrics EXCEPT !.blockedOperations = @ + 1]
               /\ result' = BlockedResult
               /\ pc' = "done"
          ELSE /\ pc' = "loop"
               /\ UNCHANGED <<metrics, result>>
  /\ UNCHANGED <<connected, options, config, currentTask, attempts,
                 lastResult, success, execLog, postLog,
                 runCommandCalls, calls>>

\* line 152: the loop test
LoopContinues(att, cfg) == att <= cfg.maxRetries

\* line 158: if (this.connected)
UseCommandAlways(conn) == TRUE
UseCommand(conn) == conn

\* lines 152-178: test the loop condition, count the attempt and hand the
\* current task to the executor (or substitute the standalone result when
\* not connected); lines 229-238 when the loop is left
loopTest ==
  /\ UNCHANGED notOrch
  /\ pc = "loop"
  /\ IF LoopContinues(attempts, config)
     THEN /\ attempts' = attempts + 1
          /\ IF UseCommand(connected)
             THEN /\ runCommandCalls' = runCommandCalls + 1
                  /\ execLog' = Append(execLog, [mode |-> "command",
                                                 out |-> "pending",
                                                 task |-> currentTask])
                  /\ pc' = "runCommand"
                  /\ UNCHANGED lastResult
             ELSE /\ lastResult' = StandaloneResult
                  /\ execLog' = Append(execLog, [mode |-> "standalone",
                                                 out |-> "object",
                                                 task |-> currentTask])
                  /\ pc' = "validate"
                  /\ UNCHANGED runCommandCalls
          /\ UNCHANGED result
     ELSE /\ result' = FinalResult(lastResult, attempts, config, success)
          /\ pc' = "done"
          /\ UNCHANGED <<attempts, lastResult, execLog, runCommandCalls>>
  /\ UNCHANGED <<connected, metrics, options, config, currentTask,
                 success, preLog, postLog, calls>>

\* lines 160-168, 220-226: the external process closes
CommandOutcomes == {"object", "primitive", "error"}
runCommandSettles ==
  /\ UNCHANGED notOrch
  /\ pc = "runCommand"
  /\ \E o \in CommandOutcomes :
       /\ execLog' = [execLog EXCEPT ![Len(execLog)].out = o]
       /\ IF o = "error"
          THEN /\ result' = ErrorResult
               /\ pc' = "done"
               /\ UNCHANGED lastResult
          ELSE /\ lastResult' = ParsedOutput(o)
               /\ pc' = "validate"
               /\ UNCHANGED result
  /\ UNCHANGED <<connected, metrics, options, config, currentTask, attempts,
                 success, preLog, postLog, runCommandCalls, calls>>

\* lines 180-185, 214-218
validate ==
  /\ UNCHANGED notOrch
  /\ pc = "validate"
  /\ IF config.postValidation
     THEN /\ metrics' = [metrics EXCEPT !.totalValidations = @ + 1]
          /\ pc' = "postValidation"
          /\ UNCHANGED <<success, result>>
     ELSE /\ success' = TRUE
          /\ result' = FinalResult(lastResult, attempts, config, TRUE)
          /\ pc' = "done"
          /\ UNCHANGED metrics
  /\ UNCHANGED <<connected, options, config, currentTask, attempts,
                 lastResult, execLog, preLog, postLog, runCommandCalls,
                 calls>>

\* lines 185-218, 220-226: the post-validation promise settles.
\* "failed" carries an issues array, "failedNoIssues" reports passed: false
\* without an issues array, "null" is a falsy result.
PostOutcomes == {"passed", "null", "failed", "failedNoIssues", "throws"}
postValidationSettles ==
  /\ UNCHANGED notOrch
  /\ pc = "postValidation"
  /\ \E o \in PostOutcomes, issues \in IssueLists :
       /\ (o # "failed") => (issues = <<>>)
       /\ CASE o = "throws" ->
                 /\ postLog' = Append(postLog, [issues |-> <<>>,
                                                outcome |-> o])
                 /\ result' = ErrorResult
                 /\ pc' = "done"
                 /\ UNCHANGED <<lastResult, success, currentTask>>
            [] o \in {"passed", "null"} ->
                 \* lines 209-213: validation passed, leave the loop
                 /\ postLog' = Append(postLog, [issues |-> <<>>,
                                                outcome |-> o])
                 /\ success' = TRUE
                 /\ result' = FinalResult(lastResult, attempts, config, TRUE)
                 /\ pc' = "done"
                 /\ UNCHANGED <<lastResult, currentTask>>
            [] o \in {"failed", "failedNoIssues"} ->
                 /\ postLog' = Append(postLog, [issues |-> issues,
                                                outcome |-> o])
                 /\ IF lastResult.shape # "object"
                    THEN \* line 189 assigns a property on a primitive
                         \* (or null): TypeError in module code
                         /\ result' = ErrorResult
                         /\ pc' = "done"
                         /\ UNCHANGED <<lastResult, currentTask>>
                    ELSE /\ lastResult' =
                              [lastResult EXCEPT
                                 !.fields = @ \cup {"qualityIssues"},
                                 !.qualityIssues = issues]
                         /\ IF LoopContinues(attempts, config)
                            THEN IF o = "failedNoIssues"
                                 THEN \* line 193: undefined.map throws
                                      /\ result' = ErrorResult
                                      /\ pc' = "done"
                                      /\ UNCHANGED currentTask
                                 ELSE /\ currentTask' =
                                           WithFeedback(currentTask, issues)
                                      /\ pc' = "loop"
                                      /\ UNCHANGED result
                            ELSE /\ pc' = "loop"
                                 /\ UNCHANGED <<result, currentTask>>
                 /\ UNCHANGED success
  /\ UNCHANGED <<connected, metrics, options, config, attempts, execLog,
                 preLog, runCommandCalls, calls>>

\* ------------------------------------------------------------------
\*  Properties of the retry orchestrator
\* ------------------------------------------------------------------
SeqAll(seq, P(_)) == \A i \in 1..Len(seq) : P(seq[i])

ExecReturnedObject(e) == e.out = "object"
PostFailed(e) == e.outcome = "failed"
PostFailedAny(e) == e.outcome \in {"failed", "failedNoIssues"}

\* the run got past pre-validation and has ended
RunEnded == pc = "done" /\ result.kind \in {"final", "error"}

\* C1 (as claimed): for every maxRetries = N >= 0, a run whose executor
\* returns a result object on every attempt and whose post-validation
\* reports failure (with an issues array) on every attempt ends after exactly
\* N+1 executor attempts with attempts = N+1 and
\* finalStatus = 'max_retries_exceeded'.
C1_RetryBoundForEveryN ==
  ( /\ RunEnded
    /\ options.postValidation
    /\ options.maxRetries >= 0
    /\ SeqAll(execLog, ExecReturnedObject)
    /\ SeqAll(postLog, PostFailed) )
  => /\ result.kind = "final"
     /\ Len(execLog) = options.maxRetries + 1
     /\ result.attempts = options.maxRetries + 1
     /\ result.finalStatus = "max_retries_exceeded"

\* C2: when post-validation fails on attempts 1..k-1 and passes on attempt k,
\* the run is over with attempts = k and finalStatus = 'success', exactly k
\* executor calls were made, and the task of every attempt j >= 2 holds the
\* feedback marker and every issue message reported for attempt j-1; an
\* attempt is started only after the previous one was validated.
C2_StopsOnFirstPass ==
  /\ Len(execLog) = attempts
  /\ (options.postValidation /\ result.kind # "blocked")
       => Len(postLog) \in {Len(execLog), Len(execLog) - 1}
  /\ \A k \in 1..Len(postLog) :
       ( /\ postLog[k].outcome = "passed"
         /\ \A i \in 1..(k-1) : PostFailedAny(postLog[i]) )
       => /\ pc = "done"
          /\ result.kind = "final"
          /\ result.attempts = k
          /\ result.finalStatus = "success"
          /\ Len(execLog) = k
          /\ Len(postLog) = k
          /\ k <= config.maxRetries + 1
          /\ \A j \in 2..k :
               /\ Includes(execLog[j].task, MARK)
               /\ \A m \in 1..Len(postLog[j-1].issues) :
                    Includes(execLog[j].task, postLog[j-1].issues[m].message)

\* witness of C2: attempt 1 failed with two issues, attempt 2 passed
C2_Witness ==
  /\ pc = "done"
  /\ Len(postLog) = 2
  /\ postLog[1].outcome = "failed"
  /\ Len(postLog[1].issues) = 2
  /\ postLog[2].outcome = "passed"
  /\ ~Includes(options.task, MARK)

\* C3: a supplied pre-validation function is called exactly once per
\* orchestration, before any executor invocation and never again on a
\* retry; when it reports passed = false the call returns the blocked result
\* and there is no executor invocation and no post-validation call.
C3_PreValidationOnce ==
  /\ (pc # "idle" /\ options.preValidation) => Len(preLog) = 1
  /\ (pc # "idle" /\ ~options.preValidation) => preLog = <<>>
  /\ pc = "preValidation" => (execLog = <<>> /\ postLog = <<>>)
  /\ (execLog # <<>> /\ options.preValidation)
       => preLog[1].out \in {"passed", "null"}
  /\ (preLog # <<>> /\ preLog[1].out = "failed")
       => /\ pc = "done"
          /\ result.kind = "blocked"
          /\ result.blocked
          /\ execLog = <<>>
          /\ runCommandCalls = 0
          /\ postLog = <<>>
          /\ attempts = 0

\* witness of C3: a failing pre-validation has blocked the run
C3_Witness ==
  /\ pc = "done"
  /\ preLog # <<>>
  /\ preLog[1].out = "failed"
  /\ result.kind = "blocked"

\* witness of C3 (retry side): pre-validation passed and a retry was made
C3_WitnessRetry ==
  /\ preLog # <<>>
  /\ preLog[1].out = "passed"
  /\ Len(execLog) >= 2

StatusSet == {"success", "max_retries_exceeded", "blocked"}

\* C4 (as claimed): every returned result carries attempts and a finalStatus
\* in {success, max_retries_exceeded, blocked}, and a run stopped by a
\* failing pre-validation reports finalStatus = 'blocked'.
C4_EveryResultHasStatus ==
  (pc = "done" /\ result.kind # "rejected")
  => /\ {"attempts", "finalStatus"} \subseteq result.fields
     /\ result.finalStatus \in StatusSet
     /\ (preLog # <<>> /\ preLog[1].out = "failed")
          => result.finalStatus = "blocked"

\* C4 (amended): a result returned after the retry loop carries attempts and
\* finalStatus in {success, max_retries_exceeded}; a run stopped by a failing
\* pre-validation returns success = false and blocked = true, without an
\* attempts or finalStatus field; so does (without the blocked flag) a run
\* ended by an error raised during an attempt.
C4_ResultShapes ==
  pc = "done" =>
    /\ result.kind \in {"final", "blocked", "error", "rejected"}
    /\ result.kind = "final"
         => /\ {"attempts", "finalStatus"} \subseteq result.fields
            /\ result.attempts = attempts
            /\ result.attempts >= 1
            /\ result.finalStatus \in {"success", "max_retries_exceeded"}
            /\ (result.finalStatus = "success") = success
    /\ (preLog # <<>> /\ preLog[1].out = "failed")
         => /\ result.kind = "blocked"
            /\ result.blocked
            /\ ~result.success
            /\ {"attempts", "finalStatus"} \cap result.fields = {}
    /\ result.kind = "blocked" => (preLog # <<>> /\ preLog[1].out = "failed")
    /\ result.kind = "error"
         => /\ ~result.success
            /\ {"attempts", "finalStatus", "blocked"} \cap result.fields = {}

\* witness of C4: a final result after an exhausted retry loop
C4_Witness ==
  /\ pc = "done"
  /\ result.kind = "final"
  /\ result.finalStatus = "max_retries_exceeded"
  /\ result.attempts = 2

\* the executor or the post-validation callback raised in the last attempt
RaisedInAttempt ==
  \/ (execLog # <<>> /\ execLog[Len(execLog)].out = "error")
  \/ (postLog # <<>> /\ postLog[Len(postLog)].outcome = "throws")

C5_WitnessPost ==
  /\ pc = "done"
  /\ postLog # <<>>
  /\ postLog[Len(postLog)].outcome = "throws"
  /\ attempts <= config.maxRetries

ExecStandalone(e) == e.mode = "standalone"

OrchNext ==
  \/ connect
  \/ orchestrate
  \/ JLMACFES_orchestrate
  \/ preValidationSettles
  \/ loopTest
  \/ runCommandSettles
  \/ validate
  \/ postValidationSettles

\* ===================================================================
\*  ValidationHooks: hook registries and pipeline runs
\* ===================================================================
MaxRegistryOps == 2
MaxRuns == 2

Priorities == {"CRITICAL", "HIGH", "MEDIUM", "LOW"}
DefaultPriority == "MEDIUM"

\* handler functions: the three default handlers and caller-supplied ones
DefaultHandlers == {"security", "performance", "quality"}
CustomHandlers == {"f"}
CustomIds == {"a", "b"}
\* ids used in registerPreToolUse / registerPostToolUse calls
PreIds == {"security-validation"} \cup CustomIds
PostIds == {"quality-validation", "a"}
Phases == {"preToolUse", "postToolUse"}

\* time measured around one handler call (performance.now() difference), in
\* clock ticks: a call that was made leaves a visible trace in totalTime
HookTimes == {1}

\* a registry entry: lines 209-215 / 233-239
NewHook(id, handler, priority, enabled) ==
  [enabled |-> enabled,
   handler |-> handler,
   id |-> id,
   metrics |-> [executions |-> 0, totalTime |-> 0],
   priority |-> IF priority = Undefined THEN DefaultPriority ELSE priority]

HasId(reg, id) == \E i \in 1..Len(reg) : reg[i].id = id

\* Map.prototype.set: an existing key keeps its position, a new key is
\* appended
MapSetAppend(reg, id, v) == Append(reg, v)
MapSet(reg, id, v) ==
  IF HasId(reg, id)
  THEN [i \in 1..Len(reg) |-> IF reg[i].id = id THEN v ELSE reg[i]]
  ELSE Append(reg, v)

\* _registerDefaultHooks: lines 296-363
DefaultPreHooks(enabledHooks) ==
  (IF "security" \in enabledHooks
   THEN <<NewHook("security-validation", "security", "CRITICAL", TRUE)>>
   ELSE <<>>)
  \o
  (IF "performance" \in enabledHooks
   THEN <<NewHook("performance-validation", "performance", "HIGH", TRUE)>>
   ELSE <<>>)
DefaultPostHooks(enabledHooks) ==
  IF "quality" \in enabledHooks
  THEN <<NewHook("quality-validation", "quality", "MEDIUM", TRUE)>>
  ELSE <<>>

NoRun == [allowed |-> TRUE,
          blocked |-> 0,
          halted |-> FALSE,
          hookErrors |-> 0,
          interventions |-> <<>>,
          invoked |-> <<>>,
          issues |-> <<>>,
          phase |-> "none",
          sorted |-> <<>>,
          threw |-> <<>>,
          valid |-> TRUE,
          vetoed |-> <<>>]

\* constructor: lines 18-53
EnabledHooksOptions == { {"security", "performance", "quality"}, {} }
HooksConstructed(strict, enabledHooks) ==
  /\ strictMode = strict
  /\ hooks = [postToolUse |-> DefaultPostHooks(enabledHooks),
              preToolUse |-> DefaultPreHooks(enabledHooks)]
  /\ hookMetrics = [postToolUseBlocked |-> 0,
                    postToolUseExecutions |-> 0,
                    preToolUseBlocked |-> 0,
                    preToolUseExecutions |-> 0]
  /\ lastRun = NoRun
  /\ registryOps = 0
  /\ runs = 0

HooksInit ==
  \E strict \in BOOLEAN, enabledHooks \in EnabledHooksOptions :
    HooksConstructed(strict, enabledHooks)

\* new ValidationHooks() with default options
HooksInitDefault ==
  HooksConstructed(FALSE, {"security", "performance", "quality"})

\* registerPreToolUse / registerPostToolUse: lines 204-243.  A handler that
\* is not a function makes the call throw before anything is changed.
register(phase, id, handler, priority, enabled) ==
  /\ registryOps < MaxRegistryOps
  /\ registryOps' = registryOps + 1
  /\ hooks' = [hooks EXCEPT
                 ![phase] = MapSet(@, id, NewHook(id, handler, priority,
                                                  enabled))]
  /\ UNCHANGED <<strictMode, hookMetrics, lastRun, runs>>
  /\ UNCHANGED notHooks

registerPreToolUse ==
  \E id \in PreIds, handler \in CustomHandlers,
     priority \in Priorities \cup {Undefined}, enabled \in BOOLEAN :
    register("preToolUse", id, handler, priority, enabled)

registerPostToolUse ==
  \E id \in PostIds, handler \in CustomHandlers,
     priority \in Priorities \cup {Undefined}, enabled \in BOOLEAN :
    register("postToolUse", id, handler, priority, enabled)

RegisteredIds(reg) == {reg[i].id : i \in 1..Len(reg)}

\* setHookEnabled: lines 248-254
setHookEnabled ==
  \E phase \in Phases, enabled \in BOOLEAN,
     id \in RegisteredIds(hooks.preToolUse) \cup RegisteredIds(hooks.postToolUse) :
    /\ registryOps < MaxRegistryOps
    /\ registryOps' = registryOps + 1
    /\ IF HasId(hooks[phase], id)
       THEN hooks' = [hooks EXCEPT
                        ![phase] = [i \in 1..Len(@) |->
                                      IF @[i].id = id
                                      THEN [@[i] EXCEPT !.enabled = enabled]
                                      ELSE @[i]]]
       ELSE UNCHANGED hooks
    /\ UNCHANGED <<strictMode, hookMetrics, lastRun, runs>>
    /\ UNCHANGED notHooks

\* line 369: the priorityOrder table
PriorityOrder(p) ==
  CASE p = "CRITICAL" -> 0
    [] p = "HIGH" -> 1
    [] p = "MEDIUM" -> 2
    [] p = "LOW" -> 3
    [] OTHER -> UndefinedNum

\* line 371: (priorityOrder[x.priority] || 2)
SortKey(h) == OrDefault(PriorityOrder(h.priority), 2)

KeyIs(k, h) == SortKey(h) = k
SelectKey(reg, k) == SelectSeq(reg, LAMBDA h : KeyIs(k, h))

\* _getSortedHooks: lines 368-372.  Array.prototype.sort is stable, so the
\* result lists the entries key by key, each key in Map (insertion) order.
GetSortedHooks(reg) ==
  SelectKey(reg, 0) \o SelectKey(reg, 1) \o SelectKey(reg, 2)
    \o SelectKey(reg, 3)

\* line 80 / line 154: if (!hook.enabled) continue
SkipsNever(h) == FALSE
Skips(h) == ~h.enabled

\* what a handler call can do
HookPreOutcomes == {"allow", "null", "veto", "throw"}
HookPostOutcomes == {"valid", "validIssue", "invalid", "null", "throw"}
\* the default handlers catch nothing but do not raise either
HandlerOutcomes(phase, handler) ==
  IF phase = "preToolUse"
  THEN (IF handler \in DefaultHandlers THEN {"allow", "veto"}
        ELSE HookPreOutcomes)
  ELSE (IF handler \in DefaultHandlers THEN {"valid", "validIssue", "invalid"}
        ELSE HookPostOutcomes)

RunStart(phase, sorted) == [NoRun EXCEPT !.phase = phase, !.sorted = sorted]

\* one iteration of the loop of lines 79-104
PreIteration(run, h, o) ==
  IF run.halted \/ Skips(h) THEN run
  ELSE IF o = "throw"
  THEN \* the throw leaves the loop; the catch of lines 106-109 emits
       \* hookError
       [run EXCEPT !.invoked = Append(@, h.id),
                   !.threw = Append(@, h.id),
                   !.halted = TRUE,
                   !.hookErrors = @ + 1]
  ELSE IF o = "veto"
  THEN [run EXCEPT !.invoked = Append(@, h.id),
                   !.vetoed = Append(@, h.id),
                   !.allowed = FALSE,
                   !.interventions = Append(@, h.id),
                   !.blocked = @ + 1,
                   !.halted = strictMode]
  ELSE [run EXCEPT !.invoked = Append(@, h.id)]

\* one iteration of the loop of lines 153-174
PostIteration(run, h, o) ==
  IF run.halted \/ Skips(h) THEN run
  ELSE IF o = "throw"
  THEN [run EXCEPT !.invoked = Append(@, h.id),
                   !.threw = Append(@, h.id),
                   !.halted = TRUE,
                   !.hookErrors = @ + 1]
  ELSE IF o = "invalid"
  THEN [run EXCEPT !.invoked = Append(@, h.id),
                   !.vetoed = Append(@, h.id),
                   !.valid = FALSE,
                   !.issues = Append(@, h.id),
                   !.blocked = @ + 1]
  ELSE IF o = "validIssue"
  THEN [run EXCEPT !.invoked = Append(@, h.id),
                   !.issues = Append(@, h.id)]
  ELSE [run EXCEPT !.invoked = Append(@, h.id)]

RECURSIVE RunLoop(_, _, _, _)
\* the for loop over the sorted hooks, from position i
RunLoop(run, outs, i, phase) ==
  IF i > Len(run.sorted) THEN run
  ELSE RunLoop(IF phase = "preToolUse"
               THEN PreIteration(run, run.sorted[i], outs[i])
               ELSE PostIteration(run, run.sorted[i], outs[i]),
               outs, i + 1, phase)

\* a handler that returned had its metrics updated (lines 87-88, 161-162)
Returned(run) ==
  {run.invoked[i] : i \in 1..Len(run.invoked)}
    \ {run.threw[i] : i \in 1..Len(run.threw)}

TrackMetrics(reg, run, dt) ==
  [i \in 1..Len(reg) |->
     IF reg[i].id \in Returned(run)
     THEN [reg[i] EXCEPT !.metrics.executions = @ + 1,
                         !.metrics.totalTime = @ + dt]
     ELSE reg[i]]

\* the sorted hook list as kept with the run record: id, priority, enabled
\* flag and position in the registry (registration order)
PositionOf(reg, id) == CHOOSE i \in 1..Len(reg) : reg[i].id = id
Snapshot(sorted, reg) ==
  [i \in 1..Len(sorted) |->
     [enabled |-> sorted[i].enabled,
      id |-> sorted[i].id,
      pos |-> PositionOf(reg, sorted[i].id),
      priority |-> sorted[i].priority]]

\* the handlers' behaviour in one run: one outcome per sorted position
OutcomeChoices(phase, sorted) ==
  {outs \in [1..Len(sorted) ->
               IF phase = "preToolUse" THEN HookPreOutcomes
               ELSE HookPostOutcomes] :
     \A i \in 1..Len(sorted) :
       outs[i] \in HandlerOutcomes(phase, sorted[i].handler)}

\* executePreToolUse: lines 64-126
executePreToolUse ==
  /\ runs < MaxRuns
  /\ runs' = runs + 1
  /\ LET sorted == GetSortedHooks(hooks.preToolUse) IN
     \E outs \in OutcomeChoices("preToolUse", sorted),
        dt \in HookTimes :
       LET run == RunLoop(RunStart("preToolUse", sorted), outs, 1,
                          "preToolUse") IN
       /\ lastRun' = [run EXCEPT
                        !.sorted = Snapshot(sorted, hooks.preToolUse)]
       /\ hooks' = [hooks EXCEPT
                      !.preToolUse = TrackMetrics(@, run, dt)]
       /\ hookMetrics' =
            [hookMetrics EXCEPT
               !.preToolUseExecutions = @ + 1,
               !.preToolUseBlocked = @ + run.blocked]
  /\ UNCHANGED <<strictMode, registryOps>>
  /\ UNCHANGED notHooks

\* executePostToolUse: lines 138-195
executePostToolUse ==
  /\ runs < MaxRuns
  /\ runs' = runs + 1
  /\ LET sorted == GetSortedHooks(hooks.postToolUse) IN
     \E outs \in OutcomeChoices("postToolUse", sorted),
        dt \in HookTimes :
       LET run == RunLoop(RunStart("postToolUse", sorted), outs, 1,
                          "postToolUse") IN
       /\ lastRun' = [run EXCEPT
                        !.sorted = Snapshot(sorted, hooks.postToolUse)]
       /\ hooks' = [hooks EXCEPT
                      !.postToolUse = TrackMetrics(@, run, dt)]
       /\ hookMetrics' =
            [hookMetrics EXCEPT
               !.postToolUseExecutions = @ + 1,
               !.postToolUseBlocked = @ + run.blocked]
  /\ UNCHANGED <<strictMode, registryOps>>
  /\ UNCHANGED notHooks

HooksNext ==
  \/ registerPreToolUse
  \/ registerPostToolUse
  \/ setHookEnabled
  \/ executePreToolUse
  \/ executePostToolUse

\* ------------------------------------------------------------------
\*  Properties of the hook pipeline
\* ------------------------------------------------------------------
SeqToSet(seq) == {seq[i] : i \in 1..Len(seq)}

\* the run record's entry of a hook id
EntryOf(run, id) ==
  CHOOSE e \in SeqToSet(run.sorted) : e.id = id

\* the order the claims speak of: CRITICAL, HIGH, MEDIUM, LOW
PriorityRank(p) ==
  CASE p = "CRITICAL" -> 0
    [] p = "HIGH" -> 1
    [] p = "MEDIUM" -> 2
    [] OTHER -> 3

RunHappened == lastRun.phase # "none"

\* C7 (as claimed): in every pipeline run the handlers are invoked in
\* ascending priority order CRITICAL, HIGH, MEDIUM, LOW, hooks of equal
\* priority in registration order.
C7_InvokedInPriorityOrder ==
  RunHappened =>
    \A i, j \in 1..Len(lastRun.invoked) :
      i < j =>
        LET a == EntryOf(lastRun, lastRun.invoked[i])
            b == EntryOf(lastRun, lastRun.invoked[j])
        IN \/ PriorityRank(a.priority) < PriorityRank(b.priority)
           \/ /\ PriorityRank(a.priority) = PriorityRank(b.priority)
              /\ a.pos < b.pos

\* a strict-mode veto has ended the run (pre phase only)
StoppedByVeto ==
  lastRun.phase = "preToolUse" /\ strictMode /\ lastRun.vetoed # <<>>

\* C8 (as claimed): when a handler raises in a run, a hookError event is
\* emitted for it, the hook counts as no veto and no issue, the run still
\* returns, and every enabled hook ordered after the failing one is still
\* invoked in that run.
C8_RaisingHookIsIsolated ==
  (RunHappened /\ lastRun.threw # <<>>)
  => /\ lastRun.hookErrors = Len(lastRun.threw)
     /\ SeqToSet(lastRun.threw) \cap SeqToSet(lastRun.vetoed) = {}
     /\ SeqToSet(lastRun.threw) \cap SeqToSet(lastRun.issues) = {}
     /\ ~StoppedByVeto
          => \A i \in 1..Len(lastRun.sorted) :
               lastRun.sorted[i].enabled
                 => lastRun.sorted[i].id \in SeqToSet(lastRun.invoked)

\* the ids of the enabled hooks of the run, in execution order
EnabledIds(run) ==
  LET en == SelectSeq(run.sorted, LAMBDA e : e.enabled)
  IN [i \in 1..Len(en) |-> en[i].id]

\* C9 (as claimed): in strict mode a pre-phase run stops at the first
\* vetoing hook (nothing is invoked after it, exactly one intervention); in
\* non-strict mode every enabled pre-hook is invoked exactly once whatever
\* was vetoed before, each veto is an intervention, and allowed is false
\* once a hook has vetoed.
C9_StrictStopsNonStrictRunsAll ==
  (RunHappened /\ lastRun.phase = "preToolUse")
  => /\ strictMode
          => /\ Len(lastRun.interventions) <= 1
             /\ lastRun.vetoed # <<>>
                  => /\ Len(lastRun.interventions) = 1
                     /\ lastRun.invoked[Len(lastRun.invoked)]
                          = lastRun.vetoed[1]
                     /\ ~lastRun.allowed
     /\ ~strictMode
          => /\ lastRun.invoked = EnabledIds(lastRun)
             /\ lastRun.interventions = lastRun.vetoed
             /\ lastRun.allowed = (lastRun.vetoed = <<>>)

\* seq with the entries outside keep removed
Restricted(seq, keep) == SelectSeq(seq, LAMBDA x : x \in keep)

\* C30 (as claimed): a post-phase run invokes every enabled post-hook, in
\* strict mode as in non-strict mode and whatever an earlier hook returned;
\* valid is false exactly when an invoked hook returned valid = false, and
\* the issues are those of the invoked hooks in the order of invocation.
C30_PostRunsEveryHook ==
  (RunHappened /\ lastRun.phase = "postToolUse")
  => /\ lastRun.invoked = EnabledIds(lastRun)
     /\ lastRun.valid = (lastRun.vetoed = <<>>)
     /\ lastRun.issues =
          Restricted(lastRun.invoked, SeqToSet(lastRun.issues))

\* a pipeline run has just been made
RunStep == runs' = runs + 1

\* a disabled registry entry is left exactly as it was
DisabledUntouched(phase) ==
  /\ Len(hooks'[phase]) = Len(hooks[phase])
  /\ \A i \in 1..Len(hooks[phase]) :
       ~hooks[phase][i].enabled => hooks'[phase][i] = hooks[phase][i]

\* C10: whatever registrations and setHookEnabled calls came before, a
\* pipeline run never invokes the handler of a hook whose enabled flag is
\* false at its turn (a hook registered with enabled: false included), and
\* the run leaves the execution metrics of such a hook unchanged.
C10_DisabledHookNeverRuns ==
  /\ [](RunHappened =>
          \A i \in 1..Len(lastRun.sorted) :
            ~lastRun.sorted[i].enabled
              => lastRun.sorted[i].id \notin SeqToSet(lastRun.invoked))
  /\ [][RunStep => (DisabledUntouched("preToolUse")
                     /\ DisabledUntouched("postToolUse"))]_vars

\* witness of C10: a hook that ran once was disabled and then skipped by
\* the next run, which invoked another hook
C10_Witness ==
  /\ runs = 2
  /\ lastRun.phase = "preToolUse"
  /\ lastRun.invoked # <<>>
  /\ \E i \in 1..Len(lastRun.sorted), k \in 1..Len(hooks.preToolUse) :
       /\ ~lastRun.sorted[i].enabled
       /\ hooks.preToolUse[k].id = lastRun.sorted[i].id
       /\ ~hooks.preToolUse[k].enabled
       /\ hooks.preToolUse[k].metrics.executions = 1
       /\ hooks.preToolUse[k].metrics.totalTime > 0

\* helpers of the registration claims
OtherPhase(phase) == IF phase = "preToolUse" THEN "postToolUse" ELSE "preToolUse"
EntriesOf(reg, id) == {i \in 1..Len(reg) : reg[i].id = id}

\* C11: registering a hook under an id that is already in the registry of
\* that phase leaves exactly one entry for the id (the registry keeps its
\* size), the entry carries the handler, priority and enabled flag of the
\* new registration and zeroed metrics, and the registry of the other phase
\* is unchanged.
C11_ReRegistrationReplaces ==
  [][\A phase \in Phases, id \in PreIds \cup PostIds,
        handler \in CustomHandlers,
        priority \in Priorities \cup {Undefined}, enabled \in BOOLEAN :
       (register(phase, id, handler, priority, enabled)
          /\ HasId(hooks[phase], id))
         => /\ Cardinality(EntriesOf(hooks'[phase], id)) = 1
            /\ Len(hooks'[phase]) = Len(hooks[phase])
            /\ \A i \in EntriesOf(hooks'[phase], id) :
                 /\ hooks'[phase][i].handler = handler
                 /\ hooks'[phase][i].priority =
                      (IF priority = Undefined THEN "MEDIUM" ELSE priority)
                 /\ hooks'[phase][i].enabled = enabled
                 /\ hooks'[phase][i].metrics.executions = 0
                 /\ hooks'[phase][i].metrics.totalTime = 0
            /\ hooks'[OtherPhase(phase)] = hooks[OtherPhase(phase)]]_vars

\* witness of C11: the default security hook ran (and was counted), then
\* was registered again with a caller's handler: one entry, metrics zeroed
C11_Witness ==
  /\ runs >= 1
  /\ lastRun.phase = "preToolUse"
  /\ "security-validation" \in SeqToSet(lastRun.invoked)
  /\ "security-validation" \notin SeqToSet(lastRun.threw)
  /\ Cardinality(EntriesOf(hooks.preToolUse, "security-validation")) = 1
  /\ \A i \in EntriesOf(hooks.preToolUse, "security-validation") :
       /\ hooks.preToolUse[i].handler = "f"
       /\ hooks.preToolUse[i].metrics.executions = 0

\* C39 (as claimed): in either mode the pre-phase blocked counter never
\* exceeds the pre-phase execution counter, and the post-phase blocked
\* counter never exceeds the post-phase execution counter.
C39_BlockedWithinExecutions ==
  /\ hookMetrics.preToolUseBlocked <= hookMetrics.preToolUseExecutions
  /\ hookMetrics.postToolUseBlocked <= hookMetrics.postToolUseExecutions

\* ===================================================================
\*  PatternValidator: validatePre / validatePost
\* ===================================================================
MaxSecretLen == 8
MaxValidations == 1

\* A text is modelled by what the regular expressions of the validator can
\* see in it: at most one quoted assignment  key = "value"  (value is a
\* sequence of characters without quotes) and the set of the other
\* recognisable substrings ("marks") it contains.
CriticalMarks == {".innerHTML =", "eval(", "document.write("}
OtherMarks == {"HashMap<", "JSON.parse(JSON.stringify"}
QualityMarks == {"await ", "setInterval(", "'10.0.0.1'"}

Repeat(c, n) == [i \in 1..n |-> c]
\* secret values: n letters, or two letters, stars, two letters
PlainValue(n) == Repeat("k", n)
StarredValue(n) == <<"k", "k">> \o Repeat("*", n - 4) \o <<"k", "k">>
SecretValues ==
  {PlainValue(n) : n \in 3..MaxSecretLen}
    \cup {StarredValue(n) : n \in 5..MaxSecretLen}

Assignment(key, value) == [key |-> key, value |-> value]
Assignments ==
  {Assignment("password", v) : v \in SecretValues}
    \cup {Assignment("token", PlainValue(n)) : n \in {7, MaxSecretLen}}
    \cup {Assignment("name", PlainValue(6))}
PasswordAssignment == Assignment("password", PlainValue(6))

\* a text: its one assignment of a quoted value (if any), the fragments it
\* contains (marks), and, for the statements that are spelled out, its
\* lexical tokens in order
Text(assign, marks) == [assign |-> assign, marks |-> marks, tokens |-> <<>>]
TokenText(tokens) == [assign |-> <<>>, marks |-> {}, tokens |-> tokens]

\* the tokens of the SQL statements
\* (a literal is written here with single quotes, which the expressions
\* of lines 374-378 treat as they treat double quotes; a template literal
\* with the word TEMPLATE for its backquote)
SqlLiteral == "'SELECT * FROM users WHERE id = '"
SqlTemplateHead == "TEMPLATE SELECT * FROM users WHERE name = '"
SqlTemplateTail == "' TEMPLATE"
Interpolation == "${userName}"
\* "SELECT * FROM users WHERE id = " + userId
ConcatExpression == TokenText(<<SqlLiteral, "+", "userId">>)
\* const query = "SELECT * FROM users WHERE id = " + userId;
\* db.execute(query);                       (src/unnamed/part_003, 67-70)
ConcatAssigned ==
  TokenText(<<"const", "query", "=", SqlLiteral, "+", "userId", ";", "\n",
              "db.execute", "(", "query", ")", ";">>)
\* db.execute("SELECT * FROM users WHERE id = " + userId);
ConcatArgument ==
  TokenText(<<"db.execute", "(", SqlLiteral, "+", "userId", ")", ";">>)
\* const query = `SELECT * FROM users WHERE name = '${userName}'`;
TemplateAssigned ==
  TokenText(<<"const", "query", "=", SqlTemplateHead, Interpolation,
              SqlTemplateTail,
              ";">>)
SqlTexts ==
  {ConcatExpression, ConcatAssigned, ConcatArgument, TemplateAssigned}

Texts ==
  SqlTexts
    \cup {Text(<<a>>, {}) : a \in Assignments}
    \cup {Text(<<PasswordAssignment>>, m) : m \in SUBSET CriticalMarks}
    \cup {Text(<<>>, m) : m \in SUBSET QualityMarks}
    \cup {Text(<<>>, m \cup {"HashMap<"}) : m \in SUBSET {".innerHTML ="}}
    \cup {Text(<<>>, m \cup {"JSON.parse(JSON.stringify"}) :
            m \in SUBSET {"HashMap<"}}

\* a JS value handed to the validator as `code`
NoText == Text(<<>>, {})
Value(kind, text) == [kind |-> kind, text |-> text]
NonTextKinds == {"null", "undefined", "zero", "number", "object",
                 "emptyString"}
CodeInputs ==
  {Value(k, NoText) : k \in NonTextKinds}
    \cup {Value("string", t) : t \in Texts}

\* !v  and  typeof v === 'string'
Falsy(v) == v.kind \in {"null", "undefined", "zero", "emptyString"}
IsString(v) == v.kind \in {"string", "emptyString"}

\* _compilePatterns, secrets: lines 365-372.  keywords: the alternatives of
\* the rule's keyword group; min: the least length of the quoted value
SecretRules ==
  << [keywords |-> {"password", "pwd"}, min |-> 4, name |-> "password"],
     [keywords |-> {"api_key", "apikey"}, min |-> 10, name |-> "api_key"],
     [keywords |-> {"secret", "token"}, min |-> 8, name |-> "secret"],
     [keywords |-> {"auth_token"}, min |-> 10, name |-> "auth_token"],
     [keywords |-> {"private_key"}, min |-> 20, name |-> "private_key"],
     [keywords |-> {"connection_string", "database_url"}, min |-> 15,
      name |-> "connection_string"] >>

\* the keywords a key ends with (the rules are not anchored on the left, so
\* auth_token = "..." is also a match of  token = "..." )
KeyTails(key) ==
  CASE key = "password" -> {"password"}
    [] key = "token" -> {"token"}
    [] key = "auth_token" -> {"auth_token", "token"}
    [] OTHER -> {}

\* code.match(rule.regex): the matched substrings
SecretMatches(rule, text) ==
  IF /\ text.assign # <<>>
     /\ KeyTails(text.assign[1].key) \cap rule.keywords # {}
     /\ Len(text.assign[1].value) >= rule.min
  THEN text.assign
  ELSE <<>>

\* _maskSecret: lines 426-431.  The first quoted run of 4 or more characters
\* is rewritten; a value of at most 4 characters is returned as it is.
MaskCap == 20
MinOf(a, b) == IF a < b THEN a ELSE b
maskSecret(m) ==
  IF Len(m.value) <= 4
  THEN m
  ELSE [m EXCEPT !.value = SubSeq(@, 1, 2)
                             \o Repeat("*", MinOf(Len(@) - 4, MaskCap))
                             \o SubSeq(@, Len(@) - 1, Len(@))]

Violation(type, pattern, severity, matches) ==
  [matches |-> matches, pattern |-> pattern, severity |-> severity,
   type |-> type]

\* _checkSecrets: lines 158-176
checkSecrets(text) ==
  LET hit(rule) == SecretMatches(rule, text) # <<>>
      hits == SelectSeq(SecretRules, hit)
  IN [i \in 1..Len(hits) |->
        LET found == SecretMatches(hits[i], text)
        IN Violation("hardcoded_secret", hits[i].name, "CRITICAL",
                     [j \in 1..Len(found) |-> maskSecret(found[j])])]

\* the rules that look for one substring: lines 374-419
Rule(mark, name) == [mark |-> mark, name |-> name]
Rules(group) ==
  CASE group = "sqlInjection" ->
         << Rule("query = '...' +", "string_concat"),
            Rule("SELECT ${", "template_literal"),
            Rule("query('${", "interpolation") >>
    [] group = "xss" ->
         << Rule(".innerHTML =", "innerHTML"),
            Rule("document.write(", "document.write"),
            Rule("eval(", "eval"),
            Rule("dangerouslySetInnerHTML", "dangerouslySetInnerHTML") >>
    [] group = "commandInjection" ->
         << Rule("exec('${", "exec_concat"),
            Rule("spawn(' +", "spawn_concat"),
            Rule("child_process ${", "shell_interpolation") >>
    [] group = "hashMap" ->
         << Rule("std::collections::HashMap", "std_hashmap"),
            Rule("std::collections::HashSet", "std_hashset"),
            Rule("HashMap::new(", "hashmap_new"),
            Rule("HashMap<", "hashmap_generic") >>
    [] group = "performance" ->
         << Rule("for(){for()", "nested_loops"),
            Rule("JSON.parse(JSON.stringify", "json_deep_clone"),
            Rule("...x)", "spread_in_loop") >>

\* the sqlInjection regular expressions of lines 374-378 over tokens.  A
\* quoted literal is one token; . does not match a line break.
QuotedLiterals == {SqlLiteral}
SqlVerbTokens == {SqlLiteral, SqlTemplateHead}
SameLine(tokens, i, j) == \A k \in i..j : tokens[k] # "\n"
\* /(?:query|sql)\s*[+=]\s*["'].*?["']\s*\+/gi
MatchesStringConcat(tokens) ==
  \E i \in 1..Len(tokens) - 3 :
    /\ tokens[i] \in {"query", "sql"}
    /\ tokens[i + 1] \in {"+", "="}
    /\ tokens[i + 2] \in QuotedLiterals
    /\ tokens[i + 3] = "+"
\* /(?:SELECT|INSERT|UPDATE|DELETE).*?\$\{.*?\}/gi
MatchesTemplateLiteral(tokens) ==
  \E i \in 1..Len(tokens), j \in 1..Len(tokens) :
    /\ i < j
    /\ tokens[i] \in SqlVerbTokens
    /\ tokens[j] = Interpolation
    /\ SameLine(tokens, i, j)
\* /(?:query|execute)\s*\(\s*["'].*?\$\{.*?\}.*?["']/gi : after the opening
\* parenthesis a quote must follow; a backquote is not one
MatchesInterpolation(tokens) ==
  \E i \in 1..Len(tokens) - 2, j \in 1..Len(tokens) :
    /\ tokens[i] \in {"query", "execute", "db.execute"}
    /\ tokens[i + 1] = "("
    /\ tokens[i + 2] \in QuotedLiterals
    /\ i + 2 < j
    /\ tokens[j] = Interpolation
    /\ SameLine(tokens, i, j)
TokenMatch(name, tokens) ==
  CASE name = "string_concat" -> MatchesStringConcat(tokens)
    [] name = "template_literal" -> MatchesTemplateLiteral(tokens)
    [] name = "interpolation" -> MatchesInterpolation(tokens)
    [] OTHER -> FALSE

\* one violation for every rule of the group that matches: lines 182-289
checkRules(rules, text, type, severity) ==
  LET hit(rule) == \/ rule.mark \in text.marks
                   \/ TokenMatch(rule.name, text.tokens)
      hits == SelectSeq(rules, hit)
  IN [i \in 1..Len(hits) |-> Violation(type, hits[i].name, severity, <<>>)]

\* lines 54-66: the violations in the order the checks push them
SecurityViolationsNone(text) == <<>>
SecurityViolations(text) ==
  checkSecrets(text)
    \o checkRules(Rules("sqlInjection"), text, "sql_injection", "CRITICAL")
    \o checkRules(Rules("xss"), text, "xss_vulnerability", "CRITICAL")
    \o checkRules(Rules("commandInjection"), text, "command_injection", "CRITICAL")
PerformanceViolations(text) ==
  checkRules(Rules("hashMap"), text, "hashmap_performance", "HIGH")
    \o checkRules(Rules("performance"), text, "performance_antipattern", "MEDIUM")

HasSeverity(sev, v) == v.severity = sev
CountSeverity(violations, sev) ==
  LET is(v) == HasSeverity(sev, v) IN Len(SelectSeq(violations, is))

\* a validation result; fields: the properties the returned object has
ValidationResult(kind, fields, passed) ==
  [criticalCount |-> 0, fields |-> fields, issues |-> <<>>, kind |-> kind,
   passed |-> passed, performanceCompliant |-> FALSE, qualityScore |-> 0,
   totalCount |-> 0, violations |-> <<>>]

\* lines 46-52: the fail-open return
FailOpenResult ==
  ValidationResult("pre", {"passed", "violations", "responseTime"}, TRUE)

\* lines 69, 78-80
PassedPreLoose(opts, violations) == CountSeverity(violations, "CRITICAL") = 0
PassedPre(opts, violations) ==
  IF opts.strictMode
  THEN Len(violations) = 0
  ELSE CountSeverity(violations, "CRITICAL") = 0

\* lines 54-66
FoundViolations(opts, text) ==
  (IF opts.enableSecurityChecks THEN SecurityViolations(text) ELSE <<>>)
    \o (IF opts.enablePerformanceChecks
        THEN PerformanceViolations(text)
        ELSE <<>>)

\* the call raised instead of returning
ThrownResult == ValidationResult("thrown", {}, FALSE)

\* validatePre: lines 42-86 (the returned object).  Past the guard of line
\* 46 code.match(...) is called (line 162), which a value that is not a
\* string does not have.
FailsOpenNever(v) == FALSE
FailsOpen(v) == Falsy(v) \/ ~IsString(v)
validatePreResult(opts, v) ==
  IF FailsOpen(v)
  THEN FailOpenResult
  ELSE IF ~IsString(v)
  THEN ThrownResult
  ELSE LET violations == FoundViolations(opts, v.text)
       IN [ValidationResult("pre",
                            {"passed", "violations", "criticalCount",
                             "totalCount", "responseTime"},
                            PassedPre(opts, violations))
             EXCEPT !.criticalCount = CountSeverity(violations, "CRITICAL"),
                    !.totalCount = Len(violations),
                    !.violations = violations]

\* lines 71-72: the metrics after a validatePre call
validatePreMetrics(m, opts, v) ==
  IF FailsOpen(v) \/ ~IsString(v)
  THEN m
  ELSE [m EXCEPT !.checksRun = @ + 1,
                 !.violationsFound = @ + Len(FoundViolations(opts, v.text))]

\* the argument of validatePost: a string, an object holding the code under
\* code / content / data.code, or null
Given(shape, value) == [shape |-> shape, value |-> value]
Null == Value("null", NoText)

\* _extractCode: lines 436-442
extractCode(given) ==
  CASE given.shape = "string" -> given.value
    [] given.shape \in {"code", "content", "data.code"} ->
         IF Falsy(given.value) THEN Null ELSE given.value
    [] OTHER -> Null

\* _checkErrorHandling: lines 294-310
hasProperHandling(text) ==
  LET hasTryCatch == "try { } catch" \in text.marks
      hasPromiseCatch == ".catch(" \in text.marks
      hasAsyncAwait == "async function" \in text.marks
      hasAwait == "await " \in text.marks
      needsErrorHandling == hasAsyncAwait \/ hasAwait
  IN hasTryCatch \/ hasPromiseCatch \/ ~needsErrorHandling

\* _checkHardcodedValues: lines 315-337
hardcodedFound(text) ==
  text.marks \cap {"'10.0.0.1'", "'https://example.com'", ": '8080'"} # {}

\* _checkMemoryLeaks: lines 342-358
potentialLeak(text) ==
  \/ "setInterval(" \in text.marks /\ "clearInterval" \notin text.marks
  \/ /\ "addEventListener(" \in text.marks
     /\ "removeEventListener" \notin text.marks

Issue(type, severity) == [severity |-> severity, type |-> type]

\* lines 99-141: the three checks, each with its deduction
ErrorHandlingPenalty == 15
HardcodedPenalty == 5
MemoryLeakPenalty == 20
StartScore == 100
PassingScore == 70

QualityIssues(text) ==
  (IF ~hasProperHandling(text)
   THEN <<Issue("missing_error_handling", "MEDIUM")>> ELSE <<>>)
    \o (IF hardcodedFound(text)
        THEN <<Issue("hardcoded_values", "LOW")>> ELSE <<>>)
    \o (IF potentialLeak(text)
        THEN <<Issue("potential_memory_leak", "HIGH")>> ELSE <<>>)

QualityScoreFlat(text) == StartScore
QualityScore(text) ==
  StartScore
    - (IF ~hasProperHandling(text) THEN ErrorHandlingPenalty ELSE 0)
    - (IF hardcodedFound(text) THEN HardcodedPenalty ELSE 0)
    - (IF potentialLeak(text) THEN MemoryLeakPenalty ELSE 0)

MaxOf(a, b) == IF a > b THEN a ELSE b

\* lines 104: the checks run on a truthy code with quality checks enabled
ChecksQuality(opts, code) == ~Falsy(code) /\ opts.enableQualityChecks

\* code.match(...) of _checkHardcodedValues raises a TypeError on a code
\* that is not a string (line 324)
validatePostThrows(opts, given) ==
  ChecksQuality(opts, extractCode(given)) /\ ~IsString(extractCode(given))

\* validatePost: lines 96-152 (the returned object)
validatePostResult(opts, given) ==
  LET code == extractCode(given)
      checked == ChecksQuality(opts, code)
      score == IF checked THEN QualityScore(code.text) ELSE StartScore
  IN [ValidationResult("post",
                       {"passed", "qualityScore", "issues", "responseTime"},
                       score >= PassingScore)
        EXCEPT !.qualityScore = MaxOf(0, score),
               !.issues = IF checked THEN QualityIssues(code.text) ELSE <<>>]

\* the last call: its argument, its outcome, and whether the enhancer had
\* been initialized when it was made
Called(call, input, output, ready) ==
  [call |-> call, input |-> input, output |-> output, ready |-> ready]
NoValidation ==
  Called("none", Given("none", Null), ValidationResult("none", {}, FALSE),
         FALSE)

\* constructor: lines 14-32; JLMACFES constructor: HookAutomation.js 521-554
ValidatorConstructed(opts) ==
  /\ validatorOptions = opts
  /\ validatorMetrics = [checksRun |-> 0, violationsFound |-> 0]
  /\ enhancerReady = FALSE
  /\ enhancerMetrics = [validationsRun |-> 0, violationsBlocked |-> 0]
  /\ lastValidation = NoValidation
  /\ validations = 0

ValidatorOptions ==
  [enablePerformanceChecks : BOOLEAN, enableQualityChecks : BOOLEAN,
   enableSecurityChecks : BOOLEAN, strictMode : BOOLEAN]
DefaultValidatorOptions ==
  [enablePerformanceChecks |-> TRUE, enableQualityChecks |-> TRUE,
   enableSecurityChecks |-> TRUE, strictMode |-> FALSE]

ValidatorInit == \E opts \in ValidatorOptions : ValidatorConstructed(opts)
\* new PatternValidator()
ValidatorInitDefault == ValidatorConstructed(DefaultValidatorOptions)

\* PatternValidator.validatePre(code)
validatePre ==
  \E v \in CodeInputs :
    /\ validations < MaxValidations
    /\ validations' = validations + 1
    /\ lastValidation' =
         Called("validatePre", Given("arg", v),
                validatePreResult(validatorOptions, v), enhancerReady)
    /\ validatorMetrics' = validatePreMetrics(validatorMetrics,
                                              validatorOptions, v)
    /\ UNCHANGED <<validatorOptions, enhancerReady, enhancerMetrics>>
    /\ UNCHANGED notValidator

PostTexts == {Text(<<>>, m) : m \in SUBSET QualityMarks}
PostInputs ==
  {Given("string", Value(k, NoText)) : k \in {"emptyString"}}
    \cup {Given("string", Value("string", t)) : t \in PostTexts}
    \cup {Given("code", v) : v \in CodeInputs}
    \cup {Given("content", Value("string", Text(<<>>, {"await "}))),
          Given("data.code", Value("string", Text(<<>>, {"await "}))),
          Given("null", Null)}

\* PatternValidator.validatePost(result)
validatePost ==
  \E given \in PostInputs :
    /\ validations < MaxValidations
    /\ validations' = validations + 1
    /\ IF validatePostThrows(validatorOptions, given)
       THEN /\ lastValidation' =
                 Called("validatePost", given, ThrownResult, enhancerReady)
            /\ UNCHANGED validatorMetrics
       ELSE /\ lastValidation' =
                 Called("validatePost", given,
                        validatePostResult(validatorOptions, given),
                        enhancerReady)
            /\ validatorMetrics' =
                 [validatorMetrics EXCEPT !.checksRun = @ + 1]
    /\ UNCHANGED <<validatorOptions, enhancerReady, enhancerMetrics>>
    /\ UNCHANGED notValidator

\* JLMACFES.initialize: HookAutomation.js 560-630 (this._validator is set)
JLMACFES_initialize ==
  /\ ~enhancerReady
  /\ enhancerReady' = TRUE
  /\ UNCHANGED <<validatorOptions, validatorMetrics, enhancerMetrics,
                 lastValidation, validations>>
  /\ UNCHANGED notValidator

\* the catch branch of JLMACFES.validatePre: lines 662-668
FacadeErrorResult ==
  ValidationResult("facadeError", {"passed", "error", "responseTime"}, FALSE)

\* JLMACFES.validatePre(code): HookAutomation.js 643-669.  Before
\* initialize() this._validator is null and the call inside the try raises;
\* whatever is raised inside the try ends in the catch branch.
JLMACFES_validatePre ==
  \E v \in CodeInputs, compliant \in BOOLEAN :
    /\ validations < MaxValidations
    /\ validations' = validations + 1
    /\ IF \/ ~enhancerReady
          \/ validatePreResult(validatorOptions, v) = ThrownResult
       THEN /\ lastValidation' =
                 Called("JLMACFES.validatePre", Given("arg", v),
                        FacadeErrorResult, enhancerReady)
            /\ enhancerMetrics' =
                 [enhancerMetrics EXCEPT !.validationsRun = @ + 1]
            /\ UNCHANGED validatorMetrics
       ELSE LET r == validatePreResult(validatorOptions, v)
            IN /\ lastValidation' =
                    Called("JLMACFES.validatePre", Given("arg", v),
                           [r EXCEPT
                              !.fields = @ \cup {"performanceCompliant"},
                              !.performanceCompliant = compliant],
                           enhancerReady)
               /\ enhancerMetrics' =
                    [enhancerMetrics EXCEPT
                       !.validationsRun = @ + 1,
                       !.violationsBlocked =
                          IF r.passed THEN @ ELSE @ + Len(r.violations)]
               /\ validatorMetrics' = validatePreMetrics(validatorMetrics,
                                                         validatorOptions, v)
    /\ UNCHANGED <<validatorOptions, enhancerReady>>
    /\ UNCHANGED notValidator

ValidatorNext ==
  \/ validatePre
  \/ validatePost
  \/ JLMACFES_initialize
  \/ JLMACFES_validatePre

\* ------------------------------------------------- PatternValidator claims
PreReturned ==
  lastValidation.call \in {"validatePre", "JLMACFES.validatePre"}
    /\ lastValidation.output.kind = "pre"
LastText == lastValidation.input.value.text
SeverityCount(violations, sev) ==
  Cardinality({i \in 1..Len(violations) : violations[i].severity = sev})

\* C12: the passed flag of a validatePre result is true exactly when the
\* violation list holds no CRITICAL violation (strict mode off), and exactly
\* when the violation list is empty (strict mode on).
C12_PassedFollowsMode ==
  PreReturned
    => LET out == lastValidation.output
       IN IF validatorOptions.strictMode
          THEN out.passed <=> (out.violations = <<>>)
          ELSE out.passed <=> (SeverityCount(out.violations, "CRITICAL") = 0)

\* witness of C12: strict mode rejects a text whose only violation is HIGH
C12_Witness ==
  /\ PreReturned
  /\ validatorOptions.strictMode
  /\ ~lastValidation.output.passed
  /\ Len(lastValidation.output.violations) = 1
  /\ lastValidation.output.violations[1].severity = "HIGH"

\* the call was made on the validator, or on an initialized enhancer
OnValidatorOrReadyFacade ==
  \/ lastValidation.call = "validatePre"
  \/ lastValidation.call = "JLMACFES.validatePre" /\ lastValidation.ready

\* C13: validatePre on null, undefined, a number, an object or the empty
\* string returns passed = true and violations = [] and does not raise, on
\* the validator and through the initialized enhancer.
C13_MalformedInputFailsOpen ==
  (OnValidatorOrReadyFacade
     /\ lastValidation.input.value.kind \in NonTextKinds)
    => /\ lastValidation.output.kind = "pre"
       /\ lastValidation.output.passed
       /\ lastValidation.output.violations = <<>>
       /\ {"passed", "violations"} \subseteq lastValidation.output.fields

\* witness of C13: an object went through the initialized enhancer
C13_Witness ==
  /\ lastValidation.call = "JLMACFES.validatePre"
  /\ lastValidation.ready
  /\ lastValidation.input.value.kind = "object"
  /\ lastValidation.output.passed

\* the text of the last validatePre call holds a match of a secrets rule
LastTextHasSecret ==
  /\ lastValidation.input.value.kind = "string"
  /\ \E i \in 1..Len(SecretRules) : SecretMatches(SecretRules[i], LastText) # <<>>

ReportsSecret(out) ==
  /\ out.kind = "pre"
  /\ ~out.passed
  /\ \E i \in 1..Len(out.violations) :
       /\ out.violations[i].type = "hardcoded_secret"
       /\ out.violations[i].severity = "CRITICAL"

\* C14 (as claimed): for every text that holds a match of a secrets rule,
\* validatePre returns passed = false with a CRITICAL hardcoded_secret
\* violation.
C14_SecretAlwaysReported ==
  (OnValidatorOrReadyFacade /\ LastTextHasSecret)
    => ReportsSecret(lastValidation.output)

\* C14 (amended): the same, for a validator whose security checks are
\* enabled (the default); with enableSecurityChecks: false the secrets rules
\* are not run.
C14_SecretReportedWhenEnabled ==
  (OnValidatorOrReadyFacade /\ LastTextHasSecret
     /\ validatorOptions.enableSecurityChecks)
    => ReportsSecret(lastValidation.output)

\* witness of C14: a password assignment was reported
C14_Witness ==
  /\ lastValidation.call = "validatePre"
  /\ LastTextHasSecret
  /\ validatorOptions.enableSecurityChecks
  /\ ReportsSecret(lastValidation.output)

\* sub occurs in s as a run of consecutive characters
Contains(s, sub) ==
  \E i \in 0..(Len(s) - Len(sub)) : SubSeq(s, i + 1, i + Len(sub)) = sub

\* C15 (as claimed): no string in the matches of a hardcoded_secret
\* violation contains the secret literal of the text unredacted, whatever
\* the length of the literal the rule accepted.
C15_MatchesAreRedacted ==
  (PreReturned /\ LastTextHasSecret)
    => \A i \in 1..Len(lastValidation.output.violations) :
         lastValidation.output.violations[i].type = "hardcoded_secret"
           => \A j \in 1..Len(lastValidation.output.violations[i].matches) :
                ~Contains(lastValidation.output.violations[i].matches[j].value,
                          LastText.assign[1].value)

IssueTypes(out) == {out.issues[i].type : i \in 1..Len(out.issues)}
Deduction(out, type, points) == IF type \in IssueTypes(out) THEN points ELSE 0
PostReturned ==
  lastValidation.call = "validatePost" /\ lastValidation.output.kind = "post"

\* what a text shows to the three quality checks
ExpectedIssueTypes(text) ==
  (IF "await " \in text.marks THEN {"missing_error_handling"} ELSE {})
    \cup (IF "'10.0.0.1'" \in text.marks THEN {"hardcoded_values"} ELSE {})
    \cup (IF "setInterval(" \in text.marks
          THEN {"potential_memory_leak"} ELSE {})

\* C16: the quality score of a validatePost result is 100 less 15 for
\* missing error handling, 5 for hardcoded values and 20 for a potential
\* memory leak, each issue reported at most once and each exactly when its
\* check finds it; the score lies in 0..100, and passed is true exactly when
\* the score is at least 70.
C16_QualityScoreDeductions ==
  PostReturned
    => LET out == lastValidation.output
           code == extractCode(lastValidation.input)
       IN /\ out.qualityScore =
               100 - Deduction(out, "missing_error_handling", 15)
                   - Deduction(out, "hardcoded_values", 5)
                   - Deduction(out, "potential_memory_leak", 20)
          /\ Cardinality(IssueTypes(out)) = Len(out.issues)
          /\ (code.kind = "string" /\ validatorOptions.enableQualityChecks)
               => IssueTypes(out) = ExpectedIssueTypes(code.text)
          /\ out.qualityScore \in 0..100
          /\ out.passed <=> (out.qualityScore >= 70)

\* witness of C16: all three checks deducted, the result failed with 60
C16_Witness ==
  /\ PostReturned
  /\ Len(lastValidation.output.issues) = 3
  /\ lastValidation.output.qualityScore = 60
  /\ ~lastValidation.output.passed


HasViolation(violations, type, severity) ==
  \E i \in 1..Len(violations) :
    violations[i].type = type /\ violations[i].severity = severity
PreReturnedFor(text) ==
  /\ PreReturned
  /\ OnValidatorOrReadyFacade
  /\ validatorOptions.enableSecurityChecks
  /\ lastValidation.input.value = Value("string", text)

\* C32 (as claimed): validatePre on the input
\* "SELECT * FROM users WHERE id = " + userId  (a SQL string literal
\* concatenated with a variable) reports a violation of type sql_injection
\* with severity CRITICAL and returns passed = false.
C32_SqlConcatenationReported ==
  PreReturnedFor(ConcatExpression)
    => /\ ~lastValidation.output.passed
       /\ HasViolation(lastValidation.output.violations, "sql_injection",
                       "CRITICAL")
\* ===================================================================
\*  TruthScoring: calculateScore / verify
\* ===================================================================
MaxVerifies == 1

\* scores are counted in thousandths (0.95 is 950), products of a weight and
\* a score in millionths
DefaultThreshold == 950
WarningThreshold == 850
CriticalThreshold == 750
ExcellentThreshold == 950

\* _calculateSecurityScore: lines 655-671
CriticalPenalty == 300
HighPenalty == 150
MediumPenalty == 50
calculateSecurityScoreUnclamped(preResult) ==
  1000 - CountSeverity(preResult.violations, "CRITICAL") * CriticalPenalty
       - CountSeverity(preResult.violations, "HIGH") * HighPenalty
       - CountSeverity(preResult.violations, "MEDIUM") * MediumPenalty
calculateSecurityScore(preResult) ==
  IF preResult.passed /\ Len(preResult.violations) = 0
  THEN 1000
  ELSE MaxOf(0,
         1000 - CountSeverity(preResult.violations, "CRITICAL") * CriticalPenalty
              - CountSeverity(preResult.violations, "HIGH") * HighPenalty
              - CountSeverity(preResult.violations, "MEDIUM") * MediumPenalty)

\* line 505: preResult.performanceCompliant ? 1.0 : 0.8 (a property the
\* object does not have reads as undefined)
CompliantScore == 1000
NonCompliantScore == 800
performanceScore(preResult) ==
  IF "performanceCompliant" \in preResult.fields
       /\ preResult.performanceCompliant
  THEN CompliantScore
  ELSE NonCompliantScore

\* line 508: the weights, in thousandths
SecurityWeight == 500
QualityWeight == 300
PerformanceWeight == 200

\* Math.round(x * 1000) / 1000 of a value given in millionths, in thousandths
Round3(micro) == (micro + 500) \div 1000

\* _getScoreStatus: lines 676-681 (score in millionths)
getScoreStatus(micro) ==
  IF micro >= ExcellentThreshold * 1000 THEN "excellent"
  ELSE IF micro >= WarningThreshold * 1000 THEN "good"
  ELSE IF micro >= CriticalThreshold * 1000 THEN "warning"
  ELSE "critical"

NoComponents == [performance |-> 0, quality |-> 0, security |-> 0]

\* lines 534-541: the object returned from the catch branch
ScoreErrorResult ==
  [components |-> NoComponents,
   criticalCount |-> 0,
   fields |-> {"overallScore", "passed", "error", "responseTime"},
   issues |-> <<>>,
   overallScore |-> 0,
   passed |-> FALSE,
   status |-> "",
   violations |-> <<>>]

\* the validator of a TruthScoring is a PatternValidator with default
\* options (line 471); validatePost({ code }) may raise (line 501)
scoreThrows(code) ==
  validatePostThrows(DefaultValidatorOptions, Given("code", code))

\* calculateScore: lines 494-542 (the returned object)
calculateScoreResult(opts, code) ==
  IF scoreThrows(code)
  THEN ScoreErrorResult
  ELSE
    LET preResult == validatePreResult(DefaultValidatorOptions, code)
        postResult == validatePostResult(DefaultValidatorOptions,
                                         Given("code", code))
        securityScore == calculateSecurityScore(preResult)
        qualityScore == postResult.qualityScore * 10
        perfScore == performanceScore(preResult)
        overallScore == securityScore * SecurityWeight
                          + qualityScore * QualityWeight
                          + perfScore * PerformanceWeight
    IN [components |-> [performance |-> Round3(perfScore * 1000),
                        quality |-> Round3(qualityScore * 1000),
                        security |-> Round3(securityScore * 1000)],
        criticalCount |-> CountSeverity(preResult.violations, "CRITICAL"),
        fields |-> {"overallScore", "passed", "threshold", "components",
                    "status", "violations", "issues", "responseTime"},
        issues |-> postResult.issues,
        overallScore |-> Round3(overallScore),
        passed |-> overallScore >= opts.threshold * 1000,
        status |-> getScoreStatus(overallScore),
        violations |-> preResult.violations]

\* _trackScore: lines 686-710 (not reached from the catch branch); the
\* rolling average is left out
trackScore(m, code, score) ==
  IF scoreThrows(code)
  THEN m
  ELSE [m EXCEPT !.totalScores = @ + 1,
                 !.passedCount = IF score.passed THEN @ + 1 ELSE @,
                 !.failedCount = IF score.passed THEN @ ELSE @ + 1]

\* lines 700-709: the history.  A record is the scored result and the time
\* of the call; `stamp` is the position of the call among the scored calls
\* of this object, standing for Date.now()
HistoryCap == 1000
HistoryRecord(score, stamp) ==
  [overallScore |-> score.overallScore, passed |-> score.passed,
   stamp |-> stamp, status |-> score.status]
\* array.slice(-n) of an array longer than n
SliceLast(seq, n) == SubSeq(seq, Len(seq) - n + 1, Len(seq))
SliceFirst(seq, n) == SubSeq(seq, 1, n)
BoundedOldest(seq) ==
  IF Len(seq) > HistoryCap THEN SliceFirst(seq, HistoryCap) ELSE seq
Bounded(seq) ==
  IF Len(seq) > HistoryCap THEN SliceLast(seq, HistoryCap) ELSE seq
trackHistory(h, code, score, stamp) ==
  IF scoreThrows(code)
  THEN h
  ELSE Bounded(Append(h, HistoryRecord(score, stamp)))
\* every record _trackScore was ever handed, in call order
trackLog(log, code, score) ==
  IF scoreThrows(code)
  THEN log
  ELSE Append(log, HistoryRecord(score, Len(log) + 1))

\* the last call; withinBudget: whether the pre-validation call made by
\* calculateScore returned within its latency budget (a fact of the run
\* that no line of calculateScore looks at)
NoVerify ==
  [call |-> "none", code |-> Null, events |-> <<>>, rollback |-> "none",
   rollbackCalls |-> 0, score |-> ScoreErrorResult, threshold |-> 0, threw |-> FALSE,
   verified |-> FALSE, withinBudget |-> FALSE]

\* constructor: lines 459-484
TruthConstructed(via, threshold, autoRollback) ==
  /\ truthOptions = [autoRollback |-> autoRollback,
                     threshold |-> OrDefault(threshold, DefaultThreshold),
                     via |-> via]
  /\ truthMetrics = [failedCount |-> 0, passedCount |-> 0,
                     rollbackCount |-> 0, totalScores |-> 0]
  /\ lastVerify = NoVerify
  /\ verifies = 0
  /\ scoreHistory = <<>>
  /\ scoredLog = <<>>

ThresholdOptions == {UndefinedNum, 970}

\* new TruthScoring(options): autoRollback is options.autoRollback !== false
TruthInitDirect ==
  \E threshold \in ThresholdOptions, autoRollback \in BOOLEAN :
    TruthConstructed("TruthScoring", threshold, autoRollback)

\* JLMACFES.initialize, HookAutomation.js 584-590: threshold is the
\* enhancer's truthThreshold (options.truthThreshold || 0.95), autoRollback
\* its strictMode (options.strictMode || false)
TruthInitEnhancer ==
  \E truthThreshold \in ThresholdOptions, strict \in BOOLEAN :
    TruthConstructed("JLMACFES", OrDefault(truthThreshold, DefaultThreshold),
                     strict)

TruthInit == TruthInitDirect \/ TruthInitEnhancer

\* a TruthScoring with default options on which calculateScore has run n
\* times on a text without findings
CleanText == Value("string", Text(<<>>, {}))
HistoryLengths == {0, HistoryCap - 1, HistoryCap}
TruthScoredClean(via, autoRollback, n) ==
  \E opts \in {[autoRollback |-> autoRollback,
                threshold |-> DefaultThreshold,
                via |-> via]} :
    \E score \in {calculateScoreResult(opts, CleanText)} :
      \E log \in {[i \in 1..n |-> HistoryRecord(score, i)]} :
        /\ truthOptions = opts
        /\ truthMetrics = [failedCount |-> IF score.passed THEN 0 ELSE n,
                           passedCount |-> IF score.passed THEN n ELSE 0,
                           rollbackCount |-> 0, totalScores |-> n]
        /\ lastVerify = NoVerify
        /\ verifies = 0
        /\ scoreHistory = log
        /\ scoredLog = log
TruthInitScored ==
  \E n \in HistoryLengths :
    \/ TruthScoredClean("TruthScoring", TRUE, n)
    \/ TruthScoredClean("JLMACFES", FALSE, n)
\* new TruthScoring()
TruthInitDefault == TruthConstructed("TruthScoring", UndefinedNum, TRUE)

ScoreTexts ==
  {Text(<<PasswordAssignment>>, m) : m \in SUBSET CriticalMarks}
    \cup {Text(<<>>, m) : m \in SUBSET QualityMarks}
    \cup {Text(<<>>, m) : m \in SUBSET OtherMarks}
    \cup {Text(<<>>, {".innerHTML =", "await "})}
ScoreInputs ==
  {Value(k, NoText) : k \in NonTextKinds}
    \cup {Value("string", t) : t \in ScoreTexts}

\* TruthScoring.calculateScore(code)
calculateScore ==
  \E code \in ScoreInputs, withinBudget \in BOOLEAN :
    /\ verifies < MaxVerifies
    /\ verifies' = verifies + 1
    /\ \E score \in {calculateScoreResult(truthOptions, code)} :
          /\ lastVerify' = [NoVerify EXCEPT !.call = "calculateScore",
                                            !.code = code,
                                            !.score = score,
                                            !.withinBudget = withinBudget]
          /\ truthMetrics' = trackScore(truthMetrics, code, score)
          /\ scoreHistory' = trackHistory(scoreHistory, code, score,
                                          Len(scoredLog) + 1)
          /\ scoredLog' = trackLog(scoredLog, code, score)
    /\ UNCHANGED truthOptions
    /\ UNCHANGED notTruth

\* the rollbackFn of the call: left out, completing, raising an Error, or
\* rejecting with no reason (Promise.reject())
Rollbacks == {"none", "ok", "throws", "rejectsUndefined"}
VerifyThresholds == {UndefinedNum, 500}

\* lines 571-577: how often verify calls the rollback function
RollbackCalls(opts, verified, rollback) ==
  IF ~verified /\ opts.autoRollback /\ rollback # "none" THEN 1 ELSE 0

\* _performRollback: lines 753-765.  The events it emits; the count is
\* raised only after the awaited callback completed (line 756).
rollbackEvents(rollback) ==
  CASE rollback = "ok" -> <<"rollbackPerformed">>
    [] rollback = "throws" -> <<"rollbackFailed">>
    [] OTHER -> <<>>
\* line 763 reads error.message inside the catch block: with a rejection
\* that carries no reason the read itself raises and leaves verify
performRollbackThrows(rollback) == rollback = "rejectsUndefined"
rollbackCounted(rollback) == rollback = "ok"

\* verify: lines 552-580.  On the object of the catch branch
\* score.components is undefined and line 561 raises.
verifyCall(call, code, threshold, rollback, withinBudget) ==
  /\ verifies < MaxVerifies
  /\ verifies' = verifies + 1
  /\ \E effective \in {OrDefault(threshold, truthOptions.threshold)},
        score \in {calculateScoreResult(truthOptions, code)} :
     \E tracked \in {trackScore(truthMetrics, code, score)},
        verified \in {score.overallScore >= effective} :
     \E n \in {RollbackCalls(truthOptions, verified, rollback)} :
        /\ scoreHistory' = trackHistory(scoreHistory, code, score,
                                        Len(scoredLog) + 1)
        /\ scoredLog' = trackLog(scoredLog, code, score)
        /\ IF "components" \notin score.fields
           THEN /\ lastVerify' = [NoVerify EXCEPT !.call = call,
                                                  !.code = code,
                                                  !.rollback = rollback,
                                                  !.score = score,
                                                  !.threshold = effective,
                                                  !.threw = TRUE,
                                                  !.withinBudget = withinBudget]
                /\ truthMetrics' = tracked
           ELSE /\ lastVerify' = [NoVerify EXCEPT !.call = call,
                                                  !.code = code,
                                                  !.events =
                                                    (IF verified
                                                     THEN <<"verificationPassed">>
                                                     ELSE <<"verificationFailed">>)
                                                    \o (IF n = 1
                                                        THEN rollbackEvents(rollback)
                                                        ELSE <<>>),
                                                  !.rollback = rollback,
                                                  !.rollbackCalls = n,
                                                  !.score = score,
                                                  !.threshold = effective,
                                                  !.threw =
                                                    n = 1 /\ performRollbackThrows(rollback),
                                                  !.verified = verified,
                                                  !.withinBudget = withinBudget]
                /\ truthMetrics' =
                     [tracked EXCEPT
                        !.rollbackCount =
                           IF n = 1 /\ rollbackCounted(rollback)
                           THEN @ + 1 ELSE @]
  /\ UNCHANGED truthOptions
  /\ UNCHANGED notTruth

\* TruthScoring.verify(code, { threshold, rollbackFn })
verify ==
  \E code \in ScoreInputs, threshold \in VerifyThresholds,
     rollback \in Rollbacks, withinBudget \in BOOLEAN :
    /\ truthOptions.via = "TruthScoring"
    /\ verifyCall("verify", code, threshold, rollback, withinBudget)

\* JLMACFES.verify(code, options): HookAutomation.js 749-754
JLMACFES_verify ==
  \E code \in ScoreInputs, threshold \in VerifyThresholds,
     rollback \in Rollbacks, withinBudget \in BOOLEAN :
    /\ truthOptions.via = "JLMACFES"
    /\ verifyCall("JLMACFES.verify", code, threshold, rollback,
                  withinBudget)

TruthNext ==
  \/ calculateScore
  \/ verify
  \/ JLMACFES_verify

\* ----------------------------------------------------- TruthScoring claims
Scored == lastVerify.call # "none"
ScoredNormally == Scored /\ "components" \in lastVerify.score.fields
\* the validator results calculateScore works from
PreOf(code) == validatePreResult(DefaultValidatorOptions, code)
PostOf(code) == validatePostResult(DefaultValidatorOptions, Given("code", code))
ClaimedSecurity(code) ==
  LET c == SeverityCount(PreOf(code).violations, "CRITICAL")
      h == SeverityCount(PreOf(code).violations, "HIGH")
      m == SeverityCount(PreOf(code).violations, "MEDIUM")
      raw == 1000 - 300 * c - 150 * h - 50 * m
  IN IF raw < 0 THEN 0 ELSE raw
ClaimedQuality(code) == PostOf(code).qualityScore * 10
ClaimedPerformance == IF lastVerify.withinBudget THEN 1000 ELSE 800

\* C17 (as claimed): overallScore is 0.5 security + 0.3 quality + 0.2
\* performance rounded to three decimals, with security = max(0, 1 - 0.3
\* critical - 0.15 high - 0.05 medium), quality = qualityScore / 100, and
\* performance 1.0 when the pre-validation call met its latency budget and
\* 0.8 otherwise.
C17_WeightedScore ==
  ScoredNormally
    => LET code == lastVerify.code
           score == lastVerify.score
       IN /\ score.components.security = ClaimedSecurity(code)
          /\ score.components.quality = ClaimedQuality(code)
          /\ score.components.performance = ClaimedPerformance
          /\ score.overallScore =
               (500 * ClaimedSecurity(code) + 300 * ClaimedQuality(code)
                  + 200 * ClaimedPerformance + 500) \div 1000

CleanCode(code) ==
  /\ code.kind = "string"
  /\ PreOf(code).violations = <<>>
  /\ PostOf(code).issues = <<>>

\* C18 (as claimed): code without violations and without issues, validated
\* within the latency budget, scores overallScore = 1.0 with status
\* 'excellent'.
C18_CleanCodeScoresOne ==
  (Scored /\ CleanCode(lastVerify.code) /\ lastVerify.withinBudget)
    => /\ lastVerify.score.overallScore = 1000
       /\ lastVerify.score.status = "excellent"

InUnit(x) == x \in 0..1000

C19_WitnessError ==
  /\ Scored
  /\ scoreThrows(lastVerify.code)
  /\ lastVerify.score.overallScore = 0

Verifying == lastVerify.call \in {"verify", "JLMACFES.verify"}

\* C20 (as claimed): a verify call, on a TruthScoring or through the
\* enhancer, invokes the supplied rollback callback exactly once when the
\* score is below the threshold and a callback was supplied, and not at all
\* otherwise.
C20_RollbackExactlyWhenBelow ==
  Verifying
    => lastVerify.rollbackCalls =
         (IF lastVerify.score.overallScore < lastVerify.threshold
               /\ lastVerify.rollback # "none"
          THEN 1 ELSE 0)

\* a verify call that invoked a rollback callback which did not complete
FailingRollbacks == {"throws", "rejectsUndefined"}
RollbackFailed ==
  /\ verifies' = verifies + 1
  /\ lastVerify'.call \in {"verify", "JLMACFES.verify"}
  /\ lastVerify'.rollbackCalls = 1
  /\ lastVerify'.rollback \in FailingRollbacks

\* C31 (as claimed): when the rollback callback given to verify throws or
\* rejects, verify does not throw: it resolves with verified = false, a
\* rollbackFailed event is emitted, and rollbackCount is left as it was.
C31_RollbackFailureReported ==
  [][RollbackFailed
       => /\ ~lastVerify'.threw
          /\ ~lastVerify'.verified
          /\ \E i \in 1..Len(lastVerify'.events) :
                lastVerify'.events[i] = "rollbackFailed"
          /\ truthMetrics'.rollbackCount = truthMetrics.rollbackCount]_vars

\* ===================================================================
\*  SPARCIntegration: the workflow of five phases with quality gates
\*  (src/src/core/PerformanceMonitor.js, lines 450-843)
\* ===================================================================
MaxWorkflows == 2
MaxInFlight == 1

\* constructor, lines 461-487: Object.keys(this.phases) and each phase's
\* requiredOutputs and qualityGate (gates and scores in thousandths)
PhaseOrder ==
  <<"specification", "pseudocode", "architecture", "refinement",
    "completion">>
PhaseNames == {PhaseOrder[i] : i \in 1..Len(PhaseOrder)}
requiredOutputs(phase) ==
  CASE phase = "specification" ->
         <<"requirements", "constraints", "success_criteria">>
    [] phase = "pseudocode" -> <<"algorithm_design", "data_structures">>
    [] phase = "architecture" -> <<"system_design", "interfaces", "schemas">>
    [] phase = "refinement" -> <<"tests", "implementation", "coverage">>
    [] phase = "completion" -> <<"integration", "documentation">>
qualityGate(phase) ==
  CASE phase = "specification" -> 850
    [] phase = "pseudocode" -> 850
    [] phase = "architecture" -> 900
    [] phase = "refinement" -> 950
    [] phase = "completion" -> 900

\* the value of currentPhase / nextPhase after the last phase (null)
NoPhase == "null"

\* phase names a caller may pass: the five phases, a name this.phases does
\* not have, and a name it inherits from Object.prototype (this.phases[phase]
\* is then a function, which has no requiredOutputs)
UnknownPhases == {"design"}
InheritedKeys == {"constructor"}
PhaseInputs == PhaseNames \cup UnknownPhases \cup InheritedKeys

\* values of an output field: left out, '', [], a non-empty array or
\* string, a number
Out(kind, num) == [kind |-> kind, num |-> num]
Absent == Out("undefined", 0)
EmptyString == Out("emptyString", 0)
EmptyArray == Out("emptyArray", 0)
Filled == Out("filled", 0)
Num(n) == Out("number", n)
\* JS truthiness, and the truthiness of value?.length
Truthy(v) ==
  v.kind \in {"emptyArray", "filled"} \/ (v.kind = "number" /\ v.num # 0)
HasLength(v) == v.kind = "filled"

RequiredSet(phase) ==
  {requiredOutputs(phase)[i] : i \in 1..Len(requiredOutputs(phase))}
AllOutputs == UNION {RequiredSet(p) : p \in PhaseNames}
OutputValues(field) ==
  CASE field = "constraints" -> {Absent, EmptyString, Filled}
    [] field = "coverage" -> {Absent, Num(0), Num(89), Num(90)}
    [] OTHER -> {Absent, Filled}
\* an outputs object: its value at every field a phase may require
Object(o) == [kind |-> "object", value |-> o]
NoOutputs == [f \in AllOutputs |-> Absent]
AllFilled == [f \in AllOutputs |-> IF f = "coverage" THEN Num(90) ELSE Filled]
NullOutputs == [kind |-> "null", value |-> NoOutputs]
\* the objects that give the required outputs of a phase one of their
\* values each and nothing else
OutputsFor(phase) ==
  {Object([f \in AllOutputs |->
             IF f \in RequiredSet(phase) THEN g[f] ELSE Absent]) :
     g \in {h \in [RequiredSet(phase) ->
                     UNION {OutputValues(f) : f \in RequiredSet(phase)}] :
              \A f \in RequiredSet(phase) : h[f] \in OutputValues(f)}}

\* the optional custom validator: not given; resolves to an object whose
\* issues holds n issues; resolves to an object without issues; raises or
\* resolves to something that has no properties
ValidatorIssue == Issue("custom", "MEDIUM")
Reports(n) == [kind |-> "issues", num |-> n]
NoValidator == [kind |-> "none", num |-> 0]
ReportsNothing == [kind |-> "noIssues", num |-> 0]
Raises == [kind |-> "raises", num |-> 0]

\* the calls of validatePhase(phase, outputs, validator) that are made:
\* every phase on every outputs object above without a validator; an
\* empty requirements array; validators on complete and on empty outputs;
\* a name that is no phase, an inherited name, and null for outputs
PhaseCall(phase, outputs, validator) ==
  [outputs |-> outputs, phase |-> phase, validator |-> validator]
PhaseCalls ==
  UNION {{PhaseCall(p, o, NoValidator) : o \in OutputsFor(p)} :
           p \in PhaseNames}
    \cup {PhaseCall("specification",
                    Object([AllFilled EXCEPT !["requirements"] = EmptyArray,
                                             !["constraints"] = Absent]),
                    NoValidator),
          PhaseCall("specification", Object(AllFilled), Reports(2)),
          PhaseCall("pseudocode", Object(AllFilled), ReportsNothing),
          PhaseCall("pseudocode", Object(AllFilled), Raises),
          PhaseCall("architecture", Object(NoOutputs), Reports(3)),
          PhaseCall("completion", Object(AllFilled), Reports(1)),
          PhaseCall("completion", Object(AllFilled), Reports(2))}
    \cup {PhaseCall(p, Object(AllFilled), NoValidator) :
            p \in UnknownPhases \cup InheritedKeys}
    \cup {PhaseCall("specification", NullOutputs, NoValidator)}

\* lines 541-551: one issue, and 0.2 off, per required output that is falsy
MissingDeduction == 200
MissingIssuesFirstOnly(phase, o) ==
  LET req == requiredOutputs(phase)
      miss(f) == ~Truthy(o[f])
  IN [i \in 1..Cardinality({j \in 1..1 : miss(req[j])}) |->
        Issue("missing_output", "HIGH")]
MissingIssues(phase, o) ==
  LET req == requiredOutputs(phase)
      miss(f) == ~Truthy(o[f])
  IN [i \in 1..Cardinality({j \in 1..Len(req) : miss(req[j])}) |->
        Issue("missing_output", "HIGH")]

\* lines 553-560: the custom validator runs when given and enabled; its
\* issues are added and cost 0.1 each
CustomDeduction == 100
RunsValidator(opts, validator) ==
  validator.kind # "none" /\ opts.enableValidation
CustomIssuesAlways(opts, validator) ==
  IF validator.kind = "issues"
  THEN [i \in 1..validator.num |-> ValidatorIssue]
  ELSE <<>>
CustomIssues(opts, validator) ==
  IF RunsValidator(opts, validator) /\ validator.kind = "issues"
  THEN [i \in 1..validator.num |-> ValidatorIssue]
  ELSE <<>>

\* _validatePhaseSpecific: lines 722-753
NoRequirementsDeduction == 100
NoInterfacesDeduction == 150
CoverageTarget == 90
LowCoverageDeduction == 200
validatePhaseSpecific(phase, o) ==
  CASE phase = "specification" /\ ~HasLength(o["requirements"]) ->
         [deduction |-> NoRequirementsDeduction,
          issues |-> <<Issue("incomplete", Undefined)>>]
    [] phase = "architecture" /\ ~Truthy(o["interfaces"]) ->
         [deduction |-> NoInterfacesDeduction,
          issues |-> <<Issue("incomplete", Undefined)>>]
    [] phase = "refinement" /\ Truthy(o["coverage"])
         /\ o["coverage"].num < CoverageTarget ->
         [deduction |-> LowCoverageDeduction,
          issues |-> <<Issue("coverage", Undefined)>>]
    [] OTHER -> [deduction |-> 0, issues |-> <<>>]

\* _getNextPhase: lines 758-762
IndexOf(phase) == CHOOSE i \in 1..Len(PhaseOrder) : PhaseOrder[i] = phase
getNextPhaseSame(phase) == phase
getNextPhase(phase) ==
  IF IndexOf(phase) < Len(PhaseOrder)
  THEN PhaseOrder[IndexOf(phase) + 1]
  ELSE NoPhase

\* _getRemediationSteps: lines 807-813
getRemediationSteps(issues) ==
  [i \in 1..Len(issues) |->
     [issue |-> issues[i].type,
      priority |-> IF issues[i].severity = "HIGH"
                   THEN "immediate" ELSE "recommended"]]

\* lines 536-566: the score.  Every deduction is a multiple of 0.05 and the
\* double-precision results compare with the gates, and round to three
\* decimals, as the exact values do.
phaseScoreUnclamped(opts, phase, o, validator) ==
  1000 - Len(MissingIssues(phase, o)) * MissingDeduction
       - Len(CustomIssues(opts, validator)) * CustomDeduction
       - validatePhaseSpecific(phase, o).deduction
phaseScore(opts, phase, o, validator) ==
  MaxOf(0, 1000 - Len(MissingIssues(phase, o)) * MissingDeduction
                - Len(CustomIssues(opts, validator)) * CustomDeduction
                - validatePhaseSpecific(phase, o).deduction)
phasePassedLenient(opts, phase, o, validator) ==
  phaseScore(opts, phase, o, validator) >= qualityGate(phase) - 100
phasePassed(opts, phase, o, validator) ==
  phaseScore(opts, phase, o, validator) >= qualityGate(phase)

\* lines 566-596: the result object
PhaseResult(opts, phase, o, validator) ==
  LET issues == MissingIssues(phase, o) \o CustomIssues(opts, validator)
                  \o validatePhaseSpecific(phase, o).issues
      passed == phasePassed(opts, phase, o, validator)
  IN [fields |-> {"phase", "passed", "score", "qualityGate", "issues",
                  "responseTime"}
                   \cup (IF passed THEN {"nextPhase", "nextSteps"}
                                   ELSE {"remediation"}),
      issues |-> issues,
      nextPhase |-> IF passed THEN getNextPhase(phase) ELSE NoPhase,
      passed |-> passed,
      phase |-> phase,
      qualityGate |-> qualityGate(phase),
      remediation |-> IF passed THEN <<>> ELSE getRemediationSteps(issues),
      score |-> phaseScore(opts, phase, o, validator)]
\* lines 531-534: { valid: false, error }
UnknownPhaseResult(phase) ==
  [fields |-> {"valid", "error"}, issues |-> <<>>, nextPhase |-> NoPhase,
   passed |-> FALSE, phase |-> phase, qualityGate |-> 0,
   remediation |-> <<>>, score |-> 0]
NoPhaseResult == UnknownPhaseResult("")

\* the workflow object (id, startTime, endTime and duration are readings of
\* the clock and are left out; serial tells the objects apart)
Workflow(serial, task, currentPhase, completedPhases, phaseResults) ==
  [completedPhases |-> completedPhases, currentPhase |-> currentPhase,
   phaseResults |-> phaseResults, serial |-> serial, task |-> task]
NoWorkflow == Workflow(0, "", NoPhase, <<>>, <<>>)
SparcTasks == {"task"}

\* what the last call handed back (nothing yet while a validatePhase call
\* is in flight): outcome is "resolved" or
\* "rejected" (the promise of validatePhase), or "returned"
SparcCall(op, phase, outputs, validator, outcome, res, ok, serial) ==
  [op |-> op, outcome |-> outcome, outputs |-> outputs, phase |-> phase,
   result |-> res, serial |-> serial, success |-> ok,
   validator |-> validator]
NoSparcCall ==
  SparcCall("none", "", NullOutputs, NoValidator, "none", NoPhaseResult,
            FALSE, 0)

\* constructor: lines 451-492
SparcConstructed(enableValidation) ==
  /\ sparcOptions = [enableValidation |-> enableValidation]
  /\ currentWorkflow = NoWorkflow
  /\ workflowHistory = <<>>
  /\ inFlight = <<>>
  /\ lastSparc = NoSparcCall
  /\ workflowsStarted = 0
SparcInit ==
  \E enableValidation \in BOOLEAN : SparcConstructed(enableValidation)
\* new SPARCIntegration()
SparcInitDefault == SparcConstructed(TRUE)

Active == currentWorkflow # NoWorkflow

\* startWorkflow: lines 501-520
startWorkflowKeep(task) ==
  IF Active
  THEN currentWorkflow
  ELSE Workflow(workflowsStarted + 1, task, PhaseOrder[1], <<>>, <<>>)
startWorkflowNew(task) ==
  Workflow(workflowsStarted + 1, task, PhaseOrder[1], <<>>, <<>>)
startWorkflow ==
  \E task \in SparcTasks :
    /\ workflowsStarted < MaxWorkflows
    /\ workflowsStarted' = workflowsStarted + 1
    /\ currentWorkflow' = startWorkflowNew(task)
    /\ lastSparc' = SparcCall("startWorkflow", PhaseOrder[1], NullOutputs,
                              NoValidator, "returned", NoPhaseResult,
                              TRUE, workflowsStarted + 1)
    /\ UNCHANGED <<sparcOptions, workflowHistory, inFlight>>
    /\ UNCHANGED notSparc

\* validatePhase up to its first await (lines 530-560): what is raised or
\* returned before any await, and otherwise the call that is now in flight
RaisesEarly(opts, phase, outputs, validator) ==
  \/ phase \in InheritedKeys
  \/ outputs.kind = "null"
  \/ RunsValidator(opts, validator) /\ validator.kind = "raises"
\* a call suspended at an await: its arguments, and the workflow that was
\* current when it was issued (0: none)
Serial(w) == IF w = NoWorkflow THEN 0 ELSE w.serial
Suspended(c, w) ==
  [issued |-> Serial(w), outputs |-> c.outputs, phase |-> c.phase,
   validator |-> c.validator]
validatePhase ==
  \E c \in PhaseCalls :
    /\ IF c.phase \in UnknownPhases
       THEN /\ lastSparc' = SparcCall("validatePhase", c.phase, c.outputs,
                                      c.validator, "resolved",
                                      UnknownPhaseResult(c.phase), FALSE, 0)
            /\ UNCHANGED inFlight
       ELSE IF RaisesEarly(sparcOptions, c.phase, c.outputs, c.validator)
       THEN /\ lastSparc' = SparcCall("validatePhase", c.phase, c.outputs,
                                      c.validator, "rejected",
                                      NoPhaseResult, FALSE, 0)
            /\ UNCHANGED inFlight
       ELSE /\ Len(inFlight) < MaxInFlight
            /\ inFlight' = Append(inFlight, Suspended(c, currentWorkflow))
            /\ lastSparc' = NoSparcCall
    /\ UNCHANGED <<sparcOptions, currentWorkflow, workflowHistory,
                   workflowsStarted>>
    /\ UNCHANGED notSparc

\* lines 577-593: the workflow after a pass (the update is made only when
\* the validated phase is the current one)
AdvancedUnrecorded(w, phase, res) ==
  IF w # NoWorkflow /\ w.currentPhase = phase
  THEN [w EXCEPT !.completedPhases = Append(@, phase),
                 !.currentPhase = res.nextPhase]
  ELSE w
Advanced(w, phase, res) ==
  IF w # NoWorkflow /\ w.currentPhase = phase
  THEN [w EXCEPT !.completedPhases = Append(@, phase),
                 !.phaseResults = (phase :> res) @@ @,
                 !.currentPhase = res.nextPhase]
  ELSE w

RemoveAt(seq, i) == SubSeq(seq, 1, i - 1) \o SubSeq(seq, i + 1, Len(seq))

\* validatePhase from its last await on (lines 562-598): a call in flight
\* computes its result, updates the workflow and resolves
validatePhaseResume ==
  \E i \in 1..Len(inFlight) :
    LET c == inFlight[i]
        res == PhaseResult(sparcOptions, c.phase, c.outputs.value,
                           c.validator)
    IN /\ inFlight' = RemoveAt(inFlight, i)
       /\ currentWorkflow' =
            IF res.passed
            THEN Advanced(currentWorkflow, c.phase, res)
            ELSE currentWorkflow
       /\ lastSparc' = SparcCall("validatePhase", c.phase, c.outputs,
                                 c.validator, "resolved", res, FALSE, 0)
       /\ UNCHANGED <<sparcOptions, workflowHistory, workflowsStarted>>
       /\ UNCHANGED notSparc

\* line 702: this.workflowHistory.push(this.currentWorkflow)
ArchivedTwice(history, w) == Append(Append(history, w), w)
Archived(history, w) == Append(history, w)

\* completeWorkflow: lines 694-717
completeWorkflow ==
  /\ IF ~Active
     THEN /\ lastSparc' = SparcCall("completeWorkflow", "", NullOutputs,
                                    NoValidator, "returned",
                                    NoPhaseResult, FALSE, 0)
          /\ UNCHANGED <<currentWorkflow, workflowHistory>>
     ELSE /\ workflowHistory' = Archived(workflowHistory, currentWorkflow)
          /\ currentWorkflow' = NoWorkflow
          /\ lastSparc' = SparcCall("completeWorkflow", "", NullOutputs,
                                    NoValidator, "returned",
                                    NoPhaseResult, TRUE, currentWorkflow.serial)
  /\ UNCHANGED <<sparcOptions, inFlight, workflowsStarted>>
  /\ UNCHANGED notSparc

SparcNext ==
  \/ startWorkflow
  \/ validatePhase
  \/ validatePhaseResume
  \/ completeWorkflow

\* the number of occurrences of tok in text
RECURSIVE CountOf(_, _)
CountOf(text, tok) ==
  IF text = <<>> THEN 0
  ELSE (IF Head(text) = tok THEN 1 ELSE 0) + CountOf(Tail(text), tok)
BeginsWith(text, head) ==
  Len(head) <= Len(text) /\ SubSeq(text, 1, Len(head)) = head
\* the text from the first occurrence of tok on
FromFirst(text, tok) == SubSeq(text, FirstIndex(text, tok), Len(text))
\* the feedback block for a list of issues, from its marker on
ClaimedBlock(issues) ==
  <<MARK, "The previous attempt had the following issues:">>
    \o IssuesText(issues)
    \o <<"Please correct these issues in the next attempt.">>

\* C29 (as claimed): for every original task text, the task handed to an
\* attempt that follows a failed post-validation begins with the whole
\* original task text and holds exactly one feedback block, the one listing
\* the issues of the attempt right before it.
C29_OneFeedbackBlock ==
  \A j \in 2..Len(execLog) :
    /\ BeginsWith(execLog[j].task, options.task)
    /\ CountOf(execLog[j].task, MARK) = 1
    /\ FromFirst(execLog[j].task, MARK) = ClaimedBlock(postLog[j-1].issues)

\* ------------------------------------------------ SPARCIntegration claims
\* a step on which a validatePhase call that was in flight resolves
Resolves == Len(inFlight') < Len(inFlight)
PhaseResolved ==
  /\ lastSparc.op = "validatePhase"
  /\ lastSparc.outcome = "resolved"
  /\ "score" \in lastSparc.result.fields
\* the gates as the claims give them
ClaimedGate(phase) ==
  CASE phase \in {"specification", "pseudocode"} -> 850
    [] phase \in {"architecture", "completion"} -> 900
    [] phase = "refinement" -> 950
SamePosition(w, v) ==
  /\ w.currentPhase = v.currentPhase
  /\ w.completedPhases = v.completedPhases

\* C22: a validatePhase call whose returned score is below the quality gate
\* of the phase it validated leaves currentPhase and completedPhases of the
\* workflow as they were.
C22_NoAdvanceBelowGate ==
  [][(Resolves /\ lastSparc'.result.score < ClaimedGate(lastSparc'.phase))
       => SamePosition(currentWorkflow', currentWorkflow)]_vars

\* witness of C22: a call for the current phase of an active workflow came
\* back below the gate
C22_Witness ==
  /\ PhaseResolved
  /\ Active
  /\ lastSparc.phase = currentWorkflow.currentPhase
  /\ lastSparc.result.score < ClaimedGate(lastSparc.phase)

Prefix(k) == SubSeq(PhaseOrder, 1, k)
InSequence(w) ==
  LET k == Len(w.completedPhases)
  IN /\ k <= 5
     /\ w.completedPhases = Prefix(k)
     /\ w.currentPhase = IF k < 5 THEN PhaseOrder[k + 1] ELSE NoPhase

C24_PassAdvancesFailStays ==
  [][(Resolves /\ Active /\ currentWorkflow.currentPhase = lastSparc'.phase)
       => LET res == lastSparc'.result
              phase == lastSparc'.phase
              k == Len(currentWorkflow.completedPhases)
          IN IF res.passed
             THEN /\ currentWorkflow'.currentPhase =
                       (IF k + 2 <= 5 THEN PhaseOrder[k + 2] ELSE NoPhase)
                  /\ currentWorkflow'.completedPhases =
                       Append(currentWorkflow.completedPhases, phase)
                  /\ phase \in DOMAIN currentWorkflow'.phaseResults
                  /\ currentWorkflow'.phaseResults[phase] = res
             ELSE /\ "remediation" \in res.fields
                  /\ Len(res.remediation) > 0
                  /\ currentWorkflow' = currentWorkflow]_vars

\* witness of C24: the last phase passed and the workflow is terminal
C24_Witness ==
  /\ PhaseResolved
  /\ lastSparc.phase = "completion"
  /\ lastSparc.result.passed
  /\ Active
  /\ currentWorkflow.currentPhase = NoPhase
  /\ "completion" \in DOMAIN currentWorkflow.phaseResults

\* C25 (as claimed): a validatePhase call with a name that is none of the
\* five phases is rejected; it does not resolve with a result object.
C25_UnknownPhaseRejected ==
  (lastSparc.op = "validatePhase" /\ lastSparc.phase \notin PhaseNames)
    => lastSparc.outcome = "rejected"

\* C26: startWorkflow leaves exactly the new workflow active, at
\* specification with no completed phases and no phase results, also when
\* another workflow was active; the history is not touched.
C26_StartReplaces ==
  [][(workflowsStarted' # workflowsStarted)
       => /\ currentWorkflow'.serial = workflowsStarted'
          /\ currentWorkflow'.serial # currentWorkflow.serial
          /\ currentWorkflow'.currentPhase = "specification"
          /\ currentWorkflow'.completedPhases = <<>>
          /\ DOMAIN currentWorkflow'.phaseResults = {}
          /\ workflowHistory' = workflowHistory
          /\ \A i \in 1..Len(workflowHistory') :
               workflowHistory'[i].serial # currentWorkflow.serial]_vars

\* witness of C26: the second workflow was started while the first was
\* active (the first is not in the history)
C26_Witness ==
  /\ lastSparc.op = "startWorkflow"
  /\ currentWorkflow.serial = 2
  /\ workflowHistory = <<>>

\* C27: completeWorkflow on an active workflow appends that workflow to the
\* history once and leaves no workflow active, in whatever phase it was;
\* without an active workflow it returns success = false and changes
\* nothing.
C27_CompleteArchives ==
  [][completeWorkflow
       => IF Active
          THEN /\ workflowHistory' =
                    workflowHistory \o <<currentWorkflow>>
               /\ ~Active'
               /\ lastSparc'.success
          ELSE /\ ~lastSparc'.success
               /\ UNCHANGED <<sparcOptions, currentWorkflow,
                              workflowHistory, inFlight,
                              workflowsStarted>>]_vars

\* witness of C27: a workflow stopped in the middle is in the history and
\* none is active
C27_Witness ==
  /\ lastSparc.op = "completeWorkflow"
  /\ lastSparc.success
  /\ ~Active
  /\ Len(workflowHistory) = 1
  /\ Len(workflowHistory[1].completedPhases) = 2

\* the score as C28 gives it; the deductions of specification and
\* architecture, which the claim leaves open, are those of lines 727-739
ClaimedMissing(phase, o) ==
  Cardinality({f \in RequiredSet(phase) : ~Truthy(o[f])})
ClaimedReported(validator) ==
  IF sparcOptions.enableValidation /\ validator.kind = "issues"
  THEN validator.num ELSE 0
ClaimedSpecific(phase, o) ==
  CASE phase = "refinement" ->
         IF Truthy(o["coverage"]) /\ o["coverage"].num < 90
         THEN 200 ELSE 0
    [] phase = "specification" ->
         IF o["requirements"].kind = "filled" THEN 0 ELSE 100
    [] phase = "architecture" ->
         IF Truthy(o["interfaces"]) THEN 0 ELSE 150
    [] OTHER -> 0
ClaimedPhaseScore(phase, o, validator) ==
  LET raw == 1000 - 200 * ClaimedMissing(phase, o)
                  - 100 * ClaimedReported(validator)
                  - ClaimedSpecific(phase, o)
  IN IF raw < 0 THEN 0 ELSE raw

\* C28: the score of validatePhase is max(0, 1.0 - 0.2 per missing required
\* output - 0.1 per issue the custom validator reported - the deductions of
\* the phase, 0.2 in refinement for a reported coverage below 90), and the
\* phase passes exactly when the score reaches its gate (0.85, 0.85, 0.90,
\* 0.95, 0.90).
C28_PhaseScore ==
  PhaseResolved
    => /\ lastSparc.result.score =
            ClaimedPhaseScore(lastSparc.phase, lastSparc.outputs.value,
                              lastSparc.validator)
       /\ lastSparc.result.passed
            <=> (lastSparc.result.score >= ClaimedGate(lastSparc.phase))

\* witness of C28: a phase passed with a score equal to its gate
C28_Witness ==
  /\ PhaseResolved
  /\ lastSparc.result.passed
  /\ lastSparc.result.score = ClaimedGate(lastSparc.phase)

\* witness of C28: deductions beyond 1.0 leave a score of 0
C28_WitnessFloor ==
  /\ PhaseResolved
  /\ lastSparc.result.score = 0
  /\ Len(lastSparc.result.issues) > 6

LowestGate == 850
\* C40: for every phase, a validatePhase call whose outputs lack a required
\* field (the field is falsy) does not pass, and its score is below every
\* quality gate, with or without a custom validator.
C40_MissingOutputNeverPasses ==
  (PhaseResolved
     /\ lastSparc.phase \in PhaseNames
     /\ ClaimedMissing(lastSparc.phase, lastSparc.outputs.value) >= 1)
    => /\ ~lastSparc.result.passed
       /\ lastSparc.result.score < LowestGate
       /\ \A p \in PhaseNames : lastSparc.result.score < qualityGate(p)

\* witness of C40: one required field missing and nothing else deducted,
\* with no validator and with a validator that reports nothing
C40_Witness ==
  /\ PhaseResolved
  /\ ClaimedMissing(lastSparc.phase, lastSparc.outputs.value) = 1
  /\ lastSparc.result.score = 1000 - MissingDeduction
  /\ ~lastSparc.result.passed
  /\ lastSparc.validator = NoValidator
C40_WitnessValidator ==
  /\ PhaseResolved
  /\ ClaimedMissing(lastSparc.phase, lastSparc.outputs.value) >= 1
  /\ lastSparc.validator # NoValidator
  /\ ~lastSparc.result.passed

\* the k most recent of the records ever scored
MostRecent(k) ==
  [i \in 1..k |-> scoredLog[Len(scoredLog) - k + i]]

\* C21: the score history never holds more than 1000 records, and it is
\* the most recently scored records (all of them while there are at most
\* 1000) in the order in which they were scored, so the record evicted on
\* overflow is the oldest one.
C21_HistoryBounded ==
  /\ Len(scoreHistory) <= 1000
  /\ scoreHistory =
       MostRecent(IF Len(scoredLog) < 1000 THEN Len(scoredLog) ELSE 1000)
  /\ \A i \in 1..(Len(scoreHistory) - 1) :
       scoreHistory[i].stamp < scoreHistory[i + 1].stamp

\* witness of C21: a record was scored on a full history and the first
\* record ever scored is gone
C21_Witness ==
  /\ Scored
  /\ Len(scoredLog) = 1001
  /\ Len(scoreHistory) = 1000
  /\ scoreHistory[1] = scoredLog[2]
  /\ scoreHistory[1000] = scoredLog[1001]

\* ===================================================================
\*  HookAutomation: session start, restore and end
\*  (src/src/hooks/HookAutomation.js, lines 19-156 and 342-391)
\* ===================================================================
MaxSessionCalls == 3

SessionIds == {"s1", "s2"}
\* constructor, lines 40-47 (sessionId: options.sessionId || ...)
Session(id, active) == [active |-> active, id |-> id]

\* what the last finished call returned
SessionReturn(op, ended, reason, sessionId) ==
  [ended |-> ended, op |-> op, reason |-> reason, sessionId |-> sessionId]
NoSessionReturn == SessionReturn("none", FALSE, "", "")

\* a call waiting for its claude-flow child process (_executeClaudeFlowHook,
\* lines 342-380, resolves in every case: exit code 0, another exit code,
\* or a spawn error); epoch: how many starts and restores had happened
\* when the call was issued
Waiting(op, id) == [epoch |-> sessionEpoch, id |-> id, op |-> op]

SessionConstructed(id) ==
  /\ session = Session(id, FALSE)
  /\ hookHistory = <<>>
  /\ suspended = <<>>
  /\ lastSession = NoSessionReturn
  /\ sessionCalls = 0
  /\ sessionEpoch = 0
  /\ endedInEpoch = 0
SessionInit == \E id \in SessionIds : SessionConstructed(id)
\* new HookAutomation({ sessionId: 's1' })
SessionInitDefault == SessionConstructed("s1")

\* _trackHook: lines 385-391
trackHook(history, hookName) == Append(history, hookName)

\* sessionStart: lines 59-87.  The session object is replaced before the
\* await; with loadContext: false there is no await at all.
sessionStart ==
  \E id \in SessionIds, loadContext \in BOOLEAN :
    /\ sessionCalls < MaxSessionCalls
    /\ sessionCalls' = sessionCalls + 1
    /\ session' = Session(id, TRUE)
    /\ sessionEpoch' = sessionEpoch + 1
    /\ endedInEpoch' = 0
    /\ IF loadContext
       THEN /\ suspended' = Append(suspended, Waiting("sessionStart", id))
            /\ UNCHANGED <<hookHistory, lastSession>>
       ELSE /\ hookHistory' = trackHook(hookHistory, "session-start")
            /\ lastSession' = SessionReturn("sessionStart", FALSE, "", id)
            /\ UNCHANGED suspended
    /\ UNCHANGED notSession

\* sessionStart after its await: lines 80-87
sessionStartResume ==
  \E i \in 1..Len(suspended) :
    /\ suspended[i].op = "sessionStart"
    /\ suspended' = RemoveAt(suspended, i)
    /\ hookHistory' = trackHook(hookHistory, "session-start")
    /\ lastSession' = SessionReturn("sessionStart", FALSE, "",
                                    suspended[i].id)
    /\ UNCHANGED <<session, sessionCalls, sessionEpoch, endedInEpoch>>
    /\ UNCHANGED notSession

\* sessionRestore: lines 96-101 (the await comes first)
sessionRestore ==
  \E id \in SessionIds :
    /\ sessionCalls < MaxSessionCalls
    /\ sessionCalls' = sessionCalls + 1
    /\ suspended' = Append(suspended, Waiting("sessionRestore", id))
    /\ sessionEpoch' = sessionEpoch + 1
    /\ endedInEpoch' = 0
    /\ UNCHANGED <<session, hookHistory, lastSession>>
    /\ UNCHANGED notSession

\* sessionRestore after its await: lines 103-114
sessionRestoreResume ==
  \E i \in 1..Len(suspended) :
    /\ suspended[i].op = "sessionRestore"
    /\ suspended' = RemoveAt(suspended, i)
    /\ session' = Session(suspended[i].id, TRUE)
    /\ hookHistory' = trackHook(hookHistory, "session-restore")
    /\ lastSession' = SessionReturn("sessionRestore", FALSE, "",
                                    suspended[i].id)
    /\ sessionEpoch' = sessionEpoch + 1
    /\ endedInEpoch' = 0
    /\ UNCHANGED sessionCalls
    /\ UNCHANGED notSession

\* lines 125-127: the test that lets a sessionEnd call go on
MayEnd(s) == s.active

\* sessionEnd: lines 124-138 (up to the await)
sessionEnd ==
  /\ sessionCalls < MaxSessionCalls
  /\ sessionCalls' = sessionCalls + 1
  /\ IF ~MayEnd(session)
     THEN /\ lastSession' = SessionReturn("sessionEnd", FALSE,
                                          "No active session", "")
          /\ UNCHANGED suspended
     ELSE /\ suspended' = Append(suspended, Waiting("sessionEnd", session.id))
          /\ UNCHANGED lastSession
  /\ UNCHANGED <<session, hookHistory, sessionEpoch, endedInEpoch>>
  /\ UNCHANGED notSession

\* sessionEnd after its await: lines 140-155
sessionEndResume ==
  \E i \in 1..Len(suspended) :
    /\ suspended[i].op = "sessionEnd"
    /\ suspended' = RemoveAt(suspended, i)
    /\ hookHistory' = trackHook(hookHistory, "session-end")
    /\ session' = [session EXCEPT !.active = FALSE]
    /\ lastSession' = SessionReturn("sessionEnd", TRUE, "", session.id)
    /\ endedInEpoch' = IF suspended[i].epoch = sessionEpoch
                       THEN endedInEpoch + 1
                       ELSE endedInEpoch
    /\ UNCHANGED <<sessionCalls, sessionEpoch>>
    /\ UNCHANGED notSession

SessionNext ==
  \/ sessionStart
  \/ sessionStartResume
  \/ sessionRestore
  \/ sessionRestoreResume
  \/ sessionEnd
  \/ sessionEndResume

\* ------------------------------------------------- HookAutomation claims
\* C35 (as claimed): of the sessionEnd calls issued with no sessionStart
\* or sessionRestore in between, at most one returns ended = true; every
\* other one returns ended = false with the reason 'No active session'.
C35_SessionEndedOnce ==
  /\ endedInEpoch <= 1
  /\ (lastSession.op = "sessionEnd" /\ ~lastSession.ended)
       => lastSession.reason = "No active session"

\* ===================================================================
\*  EnhancementCore: tracked operations, circuit breaker, shutdown
\*  (src/src/core/PerformanceMonitor.js, lines 847-1178)
\* ===================================================================
MaxOperations == 5
MaxShutdowns == 1

\* constructor, lines 856-862 (the threshold in thousandths)
DefaultMaxConcurrentOps == 10
CircuitBreakerThreshold == 500
\* line 1120: the breaker does not open before this many operations
MinOperations == 5
\* line 1168: the operations the history keeps
OperationHistoryCap == 100
\* lines 1072 and 1083: the wait of shutdown and the sleep of its loop (ms)
ShutdownTimeout == 5000
ShutdownSleep == 100

\* an operation is named by the serial number of its startOperation call
\* (_generateId, lines 1176-1178, draws a fresh id for every call)
Health(total, successful, failed, open, openedAt) ==
  [circuitBreakerOpen |-> open, circuitBreakerOpenedAt |-> openedAt,
   failedOperations |-> failed, successfulOperations |-> successful,
   totalOperations |-> total]
\* circuitBreakerOpenedAt: null
NotOpened == 0

\* the part of the core that completeOperation and failOperation work on;
\* resetTimers: the openings whose reset timer is still pending, oldest
\* first
Core(active, timers, history, h, resets) ==
  [active |-> active, health |-> h, history |-> history,
   resetTimers |-> resets, timers |-> timers]
Current ==
  Core(activeOperations, opTimers, operationHistory, health, resetTimers)

Archive(id, state) == [id |-> id, state |-> state]
\* _archiveOperation: lines 1164-1171
archiveOperationTwice(history, entry) ==
  LET h == Append(Append(history, entry), entry)
  IN IF Len(h) > OperationHistoryCap
     THEN SliceLast(h, OperationHistoryCap)
     ELSE h
archiveOperation(history, entry) ==
  LET h == Append(history, entry)
  IN IF Len(h) > OperationHistoryCap
     THEN SliceLast(h, OperationHistoryCap)
     ELSE h

\* _resetCircuitBreaker: lines 1149-1159
resetCircuitBreaker(h) == Health(0, 0, 0, FALSE, NotOpened)

\* the serial of the latest opening among the current one and those whose
\* timers are pending; the serial of an opening stands for the Date.now()
\* of line 1133
Openings(c) ==
  IF c.health.circuitBreakerOpen
  THEN c.health.circuitBreakerOpenedAt
  ELSE IF c.resetTimers = <<>>
  THEN 0
  ELSE c.resetTimers[Len(c.resetTimers)]

\* _openCircuitBreaker: lines 1129-1144 (autoRecovery is on: line 888)
openCircuitBreaker(c, serial) ==
  IF c.health.circuitBreakerOpen
  THEN c
  ELSE [c EXCEPT !.health.circuitBreakerOpen = TRUE,
                 !.health.circuitBreakerOpenedAt = serial,
                 !.resetTimers = Append(@, serial)]

\* _checkCircuitBreaker: lines 1111-1124 (the circuitBreaker feature is on:
\* line 887)
FailureRateAbove(h) ==
  /\ h.totalOperations > 0
  /\ h.failedOperations * 1000 > CircuitBreakerThreshold * h.totalOperations
checkCircuitBreaker(c, serial) ==
  IF FailureRateAbove(c.health) /\ c.health.totalOperations >= MinOperations
  THEN openCircuitBreaker(c, serial)
  ELSE c

\* clearTimeout(operation.timeoutId): lines 962 and 994
clearTimeout(timers, id) == timers \ {id}

\* failOperation: lines 990-1015.  serial: the number a new opening gets
failOperation(c, id, serial) ==
  IF id \notin c.active
  THEN c
  ELSE checkCircuitBreaker(
         [c EXCEPT !.timers = clearTimeout(@, id),
                   !.active = @ \ {id},
                   !.history = archiveOperation(@, Archive(id, "failed")),
                   !.health.failedOperations = @ + 1],
         serial)

\* completeOperation: lines 958-986
completeOperation(c, id) ==
  IF id \notin c.active
  THEN c
  ELSE LET d == [c EXCEPT !.timers = clearTimeout(@, id),
                          !.active = @ \ {id},
                          !.history =
                             archiveOperation(@, Archive(id, "completed")),
                          !.health.successfulOperations = @ + 1]
       IN IF d.health.circuitBreakerOpen
          THEN [d EXCEPT !.health = resetCircuitBreaker(@)]
          ELSE d

\* the last call or timer: what it did
CoreCall(op, id, outcome) == [id |-> id, op |-> op, outcome |-> outcome]
NoCoreCall == CoreCall("none", 0, "")

\* constructor and _initialize: lines 848-906.  The spread of line 861 lets
\* the given maxConcurrentOps stand even when it is 0.
ConfigOf(maxConcurrentOps) ==
  [maxConcurrentOps |->
     IF maxConcurrentOps = UndefinedNum
     THEN DefaultMaxConcurrentOps
     ELSE maxConcurrentOps]
CoreConstructed(maxConcurrentOps) ==
  /\ coreState = "ready"
  /\ coreConfig = ConfigOf(maxConcurrentOps)
  /\ activeOperations = {}
  /\ opTimers = {}
  /\ operationHistory = <<>>
  /\ health = Health(0, 0, 0, FALSE, NotOpened)
  /\ resetTimers = <<>>
  /\ shutdowns = <<>>
  /\ lastCore = NoCoreCall
  /\ coreStarted = 0
  /\ shutdownCalls = 0
MaxConcurrentOptions == {1, 2}
CoreInit == \E n \in MaxConcurrentOptions : CoreConstructed(n)

\* a core whose breaker has been opened and closed once: five earlier
\* operations (named 0, -1, ...), of which four failed, the fourth failure
\* opening the breaker, and the last one completed, closing it again
\* (line 977) while the reset timer of that opening is still pending
EarlierOperations ==
  <<Archive(-4, "failed"), Archive(-3, "failed"), Archive(-2, "failed"),
    Archive(-1, "failed"), Archive(0, "completed")>>
CoreAfterBreakerCycle(maxConcurrentOps) ==
  /\ coreState = "ready"
  /\ coreConfig = ConfigOf(maxConcurrentOps)
  /\ activeOperations = {}
  /\ opTimers = {}
  /\ operationHistory = EarlierOperations
  /\ health = Health(0, 0, 0, FALSE, NotOpened)
  /\ resetTimers = <<1>>
  /\ shutdowns = <<>>
  /\ lastCore = NoCoreCall
  /\ coreStarted = 0
  /\ shutdownCalls = 0
CoreInitAfterCycle ==
  \E n \in MaxConcurrentOptions \ {1} : CoreAfterBreakerCycle(n)
\* new EnhancementCore()
CoreInitDefault == CoreConstructed(UndefinedNum)

\* the variables take the fields of c
Becomes(c) ==
  /\ activeOperations' = c.active
  /\ opTimers' = c.timers
  /\ operationHistory' = c.history
  /\ health' = c.health
  /\ resetTimers' = c.resetTimers

\* the serial of the next opening
NextOpening == Openings(Current) + 1

\* lines 923-925: the capacity test
AtCapacity(n) == n >= coreConfig.maxConcurrentOps

\* startOperation: lines 915-951
startOperation ==
  /\ coreStarted < MaxOperations
  /\ IF health.circuitBreakerOpen
     THEN /\ lastCore' = CoreCall("startOperation", 0, "threw: breaker")
          /\ UNCHANGED <<activeOperations, opTimers, health, coreStarted>>
     ELSE IF AtCapacity(Cardinality(activeOperations))
     THEN /\ lastCore' = CoreCall("startOperation", 0, "threw: capacity")
          /\ UNCHANGED <<activeOperations, opTimers, health, coreStarted>>
     ELSE LET id == coreStarted + 1
          IN /\ activeOperations' = activeOperations \cup {id}
             /\ opTimers' = opTimers \cup {id}
             /\ health' = [health EXCEPT !.totalOperations = @ + 1]
             /\ coreStarted' = id
             /\ lastCore' = CoreCall("startOperation", id, "admitted")
  /\ UNCHANGED <<coreState, coreConfig, operationHistory, resetTimers,
                 shutdowns, shutdownCalls>>
  /\ UNCHANGED notCore

Finalized(op, id) ==
  CoreCall(op, id, IF id \in activeOperations THEN "finalized" ELSE "no-op")

\* handle.complete(result) / completeOperation(id, result), for the id of
\* any operation admitted so far
complete ==
  \E id \in 1..coreStarted :
    /\ Becomes(completeOperation(Current, id))
    /\ lastCore' = Finalized("completeOperation", id)
    /\ UNCHANGED <<coreState, coreConfig, shutdowns, coreStarted,
                   shutdownCalls>>
    /\ UNCHANGED notCore

\* handle.fail(error) / failOperation(id, error)
fail ==
  \E id \in 1..coreStarted :
    /\ Becomes(failOperation(Current, id, NextOpening))
    /\ lastCore' = Finalized("failOperation", id)
    /\ UNCHANGED <<coreState, coreConfig, shutdowns, coreStarted,
                   shutdownCalls>>
    /\ UNCHANGED notCore

\* the timer of lines 942-944 fires
operationTimeout ==
  \E id \in opTimers :
    /\ Becomes([failOperation(Current, id, NextOpening)
                  EXCEPT !.timers = @ \ {id}])
    /\ lastCore' = Finalized("timeout", id)
    /\ UNCHANGED <<coreState, coreConfig, shutdowns, coreStarted,
                   shutdownCalls>>
    /\ UNCHANGED notCore

\* the timer of lines 1140-1144 fires: timers of one delay fire in the order
\* in which they were set
circuitBreakerResetTimer ==
  /\ resetTimers # <<>>
  /\ health' = resetCircuitBreaker(health)
  /\ resetTimers' = Tail(resetTimers)
  /\ lastCore' = CoreCall("resetTimer", Head(resetTimers), "reset")
  /\ UNCHANGED <<coreState, coreConfig, activeOperations, opTimers,
                 operationHistory, shutdowns, coreStarted, shutdownCalls>>
  /\ UNCHANGED notCore

\* lines 1076-1081: every operation still active is failed, in the order of
\* the map (the order in which the operations were started)
RECURSIVE ForceFailedFrom(_, _, _)
ForceFailedFrom(c, id, last) ==
  IF id > last
  THEN c
  ELSE ForceFailedFrom(failOperation(c, id, Openings(c) + 1), id + 1, last)
ForceFailed(c) == ForceFailedFrom(c, 1, coreStarted)

\* line 1075: Date.now() - shutdownStart > shutdownTimeout
ExpiredNever(elapsed) == FALSE
Expired(elapsed) == elapsed > ShutdownTimeout
\* how long one sleep of the loop takes: no less than ShutdownSleep; the
\* readings of the clock are kept to a few values
SleepDurations == {25 * ShutdownSleep, ShutdownTimeout + 1}
Elapsed(elapsed, d) == MinOf(elapsed + d, ShutdownTimeout + 1)

\* shutdown: lines 1062-1088, up to its first await.  With no operation
\* active the loop is not entered and the call finishes at once.
shutdown ==
  /\ shutdownCalls < MaxShutdowns
  /\ shutdownCalls' = shutdownCalls + 1
  /\ IF activeOperations = {}
     THEN /\ coreState' = "shutdown"
          /\ lastCore' = CoreCall("shutdown", 0, "drained")
          /\ UNCHANGED shutdowns
     ELSE /\ coreState' = "shutting_down"
          /\ shutdowns' = Append(shutdowns, 0)
          /\ lastCore' = CoreCall("shutdown", 0, "waiting")
  /\ UNCHANGED <<coreConfig, activeOperations, opTimers, operationHistory,
                 health, resetTimers, coreStarted>>
  /\ UNCHANGED notCore

\* the sleep of line 1083 is over: the loop test, the clock test, then
\* either the forced failures and the end, or another sleep
shutdownResume ==
  \E i \in 1..Len(shutdowns), d \in SleepDurations :
    LET elapsed == Elapsed(shutdowns[i], d)
    IN /\ IF activeOperations = {}
          THEN /\ coreState' = "shutdown"
               /\ shutdowns' = RemoveAt(shutdowns, i)
               /\ lastCore' = CoreCall("shutdown", 0, "drained")
               /\ UNCHANGED <<activeOperations, opTimers, operationHistory,
                              health, resetTimers>>
          ELSE IF Expired(elapsed)
          THEN /\ Becomes(ForceFailed(Current))
               /\ coreState' = "shutdown"
               /\ shutdowns' = RemoveAt(shutdowns, i)
               /\ lastCore' = CoreCall("shutdown", 0, "forced")
          ELSE /\ shutdowns' = [shutdowns EXCEPT ![i] = elapsed]
               /\ lastCore' = CoreCall("shutdown", 0, "waiting")
               /\ UNCHANGED <<coreState, activeOperations, opTimers,
                              operationHistory, health, resetTimers>>
       /\ UNCHANGED <<coreConfig, coreStarted, shutdownCalls>>
       /\ UNCHANGED notCore

CoreNext ==
  \/ startOperation
  \/ complete
  \/ fail
  \/ operationTimeout
  \/ circuitBreakerResetTimer
  \/ shutdown
  \/ shutdownResume

\* ------------------------------------------------ EnhancementCore claims
\* C36 (as claimed): in every reachable state successfulOperations +
\* failedOperations is at most totalOperations, so that the failure rate
\* and the success rate stay within 0 and 100 percent.
C36_CountsWithinTotal ==
  /\ health.successfulOperations + health.failedOperations
       <= health.totalOperations
  /\ health.failedOperations <= health.totalOperations

Closes == health.circuitBreakerOpen /\ ~health'.circuitBreakerOpen
\* C37 (as claimed): an open breaker makes startOperation throw, and it is
\* closed only by an operation that completes or by the reset timer of
\* this very opening; the timer of an earlier opening does not close it.
C37_OpenUntilSuccessOrOwnTimer ==
  /\ [][Closes
          => \/ /\ lastCore'.op = "completeOperation"
                /\ lastCore'.outcome = "finalized"
             \/ /\ lastCore'.op = "resetTimer"
                /\ lastCore'.id = health.circuitBreakerOpenedAt]_vars
  /\ [][(health.circuitBreakerOpen /\ lastCore'.op = "startOperation")
          => /\ lastCore'.outcome = "threw: breaker"
             /\ coreStarted' = coreStarted]_vars

ArchivedIds == {operationHistory[i].id : i \in 1..Len(operationHistory)}
Occurrences(id) ==
  Cardinality({i \in 1..Len(operationHistory) : operationHistory[i].id = id})
\* the counters after one more success / one more failure
OneMoreSuccess(h, g) ==
  \/ g = [h EXCEPT !.successfulOperations = @ + 1]
  \/ h.circuitBreakerOpen /\ g = Health(0, 0, 0, FALSE, NotOpened)
OneMoreFailure(h, g) ==
  /\ g.failedOperations = h.failedOperations + 1
  /\ g.successfulOperations = h.successfulOperations
  /\ g.totalOperations = h.totalOperations

\* C38: every admitted operation is finalized exactly once, by the first
\* of completeOperation, failOperation and its timeout: it is then archived
\* once and counted once, a later call for its id changes nothing, no
\* timer is left for it, every admitted operation is finalized in the end,
\* and the active operations never exceed maxConcurrentOps.
C38_FinalizedExactlyOnce ==
  /\ [](/\ Cardinality(activeOperations) <= coreConfig.maxConcurrentOps
        /\ opTimers = activeOperations
        /\ \A id \in 1..coreStarted :
             /\ Occurrences(id) = (IF id \in activeOperations THEN 0 ELSE 1)
             /\ id \in activeOperations \cup ArchivedIds)
  /\ [][lastCore'.outcome = "no-op"
          => UNCHANGED <<activeOperations, opTimers, operationHistory,
                         health, resetTimers, coreState>>]_vars
  /\ [][(lastCore'.outcome = "finalized"
           /\ lastCore'.id \in activeOperations)
          => /\ activeOperations' = activeOperations \ {lastCore'.id}
             /\ Len(operationHistory') = Len(operationHistory) + 1
             /\ operationHistory'[Len(operationHistory')].id = lastCore'.id
             /\ IF lastCore'.op = "completeOperation"
                THEN OneMoreSuccess(health, health')
                ELSE OneMoreFailure(health, health')]_vars
  /\ \A id \in 1..MaxOperations : []<>(id \notin activeOperations)

\* witness of C38: a call for an operation that is already archived
C38_Witness ==
  /\ lastCore.outcome = "no-op"
  /\ lastCore.id \in ArchivedIds
  /\ activeOperations # {}
  /\ Len(operationHistory) >= 2

ShutdownEnds ==
  \/ Len(shutdowns') < Len(shutdowns)
  \/ shutdownCalls' > shutdownCalls /\ shutdowns' = shutdowns
FailedIds ==
  {operationHistory[i].id :
     i \in {j \in 1..Len(operationHistory) :
              operationHistory[j].state = "failed"}}
\* C33: a shutdown call always ends: it waits while operations are active,
\* fails those still active once the wait has lasted longer than the
\* bound, and at the moment it ends the state is 'shutdown' and no
\* operation is active.
C33_ShutdownTerminates ==
  /\ [](\A i \in 1..Len(shutdowns) : shutdowns[i] <= ShutdownTimeout)
  /\ [][ShutdownEnds
          => /\ coreState' = "shutdown"
             /\ activeOperations' = {}
             /\ opTimers' = {}
             /\ \A id \in activeOperations :
                  /\ lastCore'.outcome = "forced"
                  /\ Occurrences(id)' = 1
                  /\ id \in FailedIds']_vars
  /\ []<>(shutdowns = <<>>)

\* witness of C33: a shutdown that had to fail two operations
C33_Witness ==
  /\ lastCore.op = "shutdown"
  /\ lastCore.outcome = "forced"
  /\ coreState = "shutdown"
  /\ activeOperations = {}
  /\ Len(operationHistory) >= 2
  /\ operationHistory[Len(operationHistory)].state = "failed"
  /\ operationHistory[Len(operationHistory) - 1].state = "failed"
  /\ coreStarted = 2
\* witness of C33: a shutdown that waited until the operations had ended
C33_WitnessDrained ==
  /\ lastCore.op = "shutdown"
  /\ lastCore.outcome = "drained"
  /\ shutdowns = <<>>
  /\ operationHistory # <<>>
  /\ operationHistory[Len(operationHistory)].state = "completed"

\* ===================================================================
\*  Specifications
\* ===================================================================
\* a constructed adapter next to a hook system with its default options
InitOrch ==
  /\ OrchInit
  /\ HooksInitDefault
  /\ ValidatorInitDefault
  /\ TruthInitDefault
  /\ SparcInitDefault
  /\ SessionInitDefault
  /\ CoreInitDefault

SpecOrch == InitOrch /\ [][OrchNext]_vars

\* a constructed hook system (any constructor options) next to an idle adapter
InitHooks ==
  /\ HooksInit
  /\ OrchInit
  /\ ValidatorInitDefault
  /\ TruthInitDefault
  /\ SparcInitDefault
  /\ SessionInitDefault
  /\ CoreInitDefault

SpecHooks == InitHooks /\ [][HooksNext]_vars

\* a constructed validator and an enhancer not yet initialized
InitValidator ==
  /\ ValidatorInit
  /\ OrchInit
  /\ HooksInitDefault
  /\ TruthInitDefault
  /\ SparcInitDefault
  /\ SessionInitDefault
  /\ CoreInitDefault

SpecValidator == InitValidator /\ [][ValidatorNext]_vars

\* a constructed TruthScoring, made directly or by the enhancer
InitTruth ==
  /\ TruthInit
  /\ OrchInit
  /\ HooksInitDefault
  /\ ValidatorInitDefault
  /\ SparcInitDefault
  /\ SessionInitDefault
  /\ CoreInitDefault

SpecTruth == InitTruth /\ [][TruthNext]_vars

\* a TruthScoring whose history is empty, one short of its cap, or full
InitHistory ==
  /\ TruthInitScored
  /\ OrchInit
  /\ HooksInitDefault
  /\ ValidatorInitDefault
  /\ SparcInitDefault
  /\ SessionInitDefault
  /\ CoreInitDefault

SpecHistory == InitHistory /\ [][TruthNext]_vars

\* a constructed SPARCIntegration
InitSparc ==
  /\ SparcInit
  /\ OrchInit
  /\ HooksInitDefault
  /\ ValidatorInitDefault
  /\ TruthInitDefault
  /\ SessionInitDefault
  /\ CoreInitDefault

SpecSparc == InitSparc /\ [][SparcNext]_vars

\* a constructed HookAutomation
InitSession ==
  /\ SessionInit
  /\ OrchInit
  /\ HooksInitDefault
  /\ ValidatorInitDefault
  /\ TruthInitDefault
  /\ SparcInitDefault
  /\ CoreInitDefault

SpecSession == InitSession /\ [][SessionNext]_vars

\* a constructed EnhancementCore
InitCore ==
  /\ CoreInit
  /\ OrchInit
  /\ HooksInitDefault
  /\ ValidatorInitDefault
  /\ TruthInitDefault
  /\ SparcInitDefault
  /\ SessionInitDefault

SpecCore == InitCore /\ [][CoreNext]_vars

\* the timer of the shutdown loop fires when it is due (line 1083)
SpecCoreLive == SpecCore /\ WF_vars(shutdownResume)

\* the timers of the operations fire when they are due (lines 942-944)
SpecCoreTimers == SpecCore /\ WF_vars(operationTimeout)

\* an EnhancementCore whose breaker has been through one cycle
InitBreaker ==
  /\ CoreInitAfterCycle
  /\ OrchInit
  /\ HooksInitDefault
  /\ ValidatorInitDefault
  /\ TruthInitDefault
  /\ SparcInitDefault
  /\ SessionInitDefault

SpecBreaker == InitBreaker /\ [][CoreNext]_vars

====
